---------------------------- MODULE Spec2Model ----------------------------
(***************************************************************************)
(* Model of the cooler-admin dashboard: the Next.js API routes (the        *)
(* password-gated clear routes, the clear-database fan-out, the upstream   *)
(* proxies, the impersonation route) and the AnomalyProcessor dialog.      *)
(***************************************************************************)
EXTENDS Integers, Sequences, FiniteSets, TLC

VARIABLES
    envAdminPassword,   \* process.env.NEXT_PUBLIC_ADMIN_PASSWORD
    db,                 \* the Postgres tables: table name -> set of rows
    req,                \* the last request a route handler was invoked with
    resp,               \* the response that handler returned
    calls,              \* the external calls (SQL, HTTP) the handler made for req
    cd,                 \* POST /api/clear-database: the handler's position and locals
    anomaly,            \* AnomalyProcessor: the anomaly prop
    mounted,            \* AnomalyProcessor: the parent still renders the dialog
    isProcessing,       \* AnomalyProcessor: useState(false)
    selectedAction,     \* AnomalyProcessor: useState('MARK_RESOLVED')
    resolutionNotes,    \* AnomalyProcessor: useState('')
    submissionData,     \* AnomalyProcessor: the edited submission record
    inflight,           \* AnomalyProcessor: axios.post requests not yet settled
    callbacks,          \* AnomalyProcessor: the calls of onResolved / onClose, in order
    alerts,             \* AnomalyProcessor: the texts passed to alert()
    history,            \* AnomalyProcessor: user events and settled responses so far, counted
    page,               \* AnomaliesPage: its useState values, by name
    sent,               \* AnomaliesPage and its dialog: the resolve requests sent, in order
    pending,            \* AnomaliesPage and its dialog: the requests not yet settled
    delivered,          \* AnomaliesPage: the calls its dialog made to it in the latest delivery
    apiPage,            \* ApiRequestsPage: its useState values, by name
    timers,             \* ApiRequestsPage: the setInterval timers that are active
    apiFetches,         \* ApiRequestsPage: the fetchApiRequests calls not yet settled
    dash,               \* Dashboard: pageSize, currentPage and pagination
    runs,               \* Dashboard: the fetchDashboardData calls not yet finished
    customers,          \* Dashboard: the customers of the page loaded
    filters,            \* Dashboard: the search, filter and sort useState values
    tableRows,          \* Dashboard: the rows of the table, getFilteredCustomers(customers)
    login,              \* gated dashboard: isAuthenticated, password, error, loading
    adminCalls          \* gated dashboard: the API calls not yet settled

routeVars == <<envAdminPassword, db, req, resp, calls, cd>>

processorVars == <<anomaly, mounted, isProcessing, selectedAction, resolutionNotes,
                   submissionData, inflight, callbacks, alerts, history>>

pageVars == <<page, sent, pending, delivered>>

\* the state of the pages of the admin interface
pollVars == <<apiPage, timers, apiFetches>>

dashVars == <<dash, runs>>

listVars == <<customers, filters, tableRows>>

loginVars == <<login, adminCalls>>

clientVars == <<pageVars, pollVars, dashVars, listVars, loginVars>>

vars == <<routeVars, processorVars, clientVars>>

(***************************************************************************)
(* JavaScript values                                                       *)
(***************************************************************************)
\* null / undefined: an absent header, an unset environment variable
NULL == "<null>"

\* the strings that are falsy in `!x` and `x || y`
Falsy(s) == s \in {NULL, ""}

\* x || d
OrElse(x, d) == IF Falsy(x) THEN d ELSE x

\* mutation of IsOk: only server errors count as failures
IsOk_belowServerError(status) == status >= 200 /\ status <= 499

\* response.ok
IsOk(status) == status >= 200 /\ status <= 299

\* new Date().toISOString(), opaque where no claim reads the time
Timestamp == "<toISOString>"

(***************************************************************************)
(* Bounds and input sets                                                   *)
(***************************************************************************)
\* rows a table holds when the upstream system has filled it
MaxRows == 2

\* values of the admin-password header a client may send (NULL: no header)
PasswordHeaders == {NULL, "", "admin123", "s3cret", "wrong"}

\* values of NEXT_PUBLIC_ADMIN_PASSWORD the server may be deployed with
EnvPasswords == {NULL, "s3cret"}

\* non-OK statuses the upstream API or a local route may answer with
NonOkStatuses == {401, 503}

\* what pool.query does: succeeds, or rejects with an Error
DbOutcomes == {"ok", "Error"}

DbErrorMessage == "connection terminated"

Tables == {"anomaly_flags", "transactions", "transaction_items", "submissions", "integrations"}

\* the rows the upstream system writes into a table
FullTable(t) ==
    IF t = "integrations"
    THEN {[id |-> i, type |-> "shopify"] : i \in 1..MaxRows} \cup {[id |-> MaxRows + 1, type |-> "woocommerce"]}
    ELSE {[id |-> i, type |-> "-"] : i \in 1..MaxRows}

\* what an upstream fetch does: throws (network error, timeout), or answers with a
\* status and a body that may or may not be readable as text / JSON
UpstreamOutcomes ==
    {[kind |-> "throw", status |-> 0, readable |-> FALSE]}
    \cup {[kind |-> "response", status |-> s, readable |-> r] : s \in NonOkStatuses \cup {200}, r \in BOOLEAN}

\* the outcome of a fetch that is not part of the run
NoUpstream == [kind |-> "throw", status |-> 0, readable |-> FALSE]

FetchErrorMessage == "fetch failed"

\* error instanceof Error ? error.message : 'Unknown error'
CaughtMessage(kind, message) == IF kind = "throwNonError" THEN "Unknown error" ELSE message

NoCall == <<>>

\* an external call as the handler made it, with what came back
SqlCall(text, params, out) ==
    [kind |-> "sql", method |-> "query", target |-> text, params |-> params,
     outcome |-> [kind |-> out, status |-> 0, readable |-> FALSE]]

HttpCall(method, url, up) ==
    [kind |-> "http", method |-> method, target |-> url, params |-> <<>>, outcome |-> up]

\* an upstream answer together with the JSON body it carried
Answered(up, data) ==
    [kind |-> up.kind, status |-> up.status, readable |-> up.readable, data |-> data]

\* mutation of FailureBody: the details are dropped
FailureBody_noDetails(error, details) == [success |-> FALSE, error |-> error]

\* the failure envelope of the catch blocks and of the upstream / database failures
FailureBody(error, details) == [success |-> FALSE, error |-> error, details |-> details]

\* the failure envelope of the gate checks (401, 400): no details
RejectionBody(error) == [success |-> FALSE, error |-> error]

\* what a handler run yields: the response, the external calls made, the tables after
Handled(status, body, made, d) == [status |-> status, body |-> body, calls |-> made, db |-> d]


(***************************************************************************)
(* lib/db.ts                                                               *)
(***************************************************************************)
\* what the database does with a statement that succeeds: the rows it removes
DeletedRows(text, params, d) ==
    IF text = "DELETE FROM integrations WHERE type = $1"
    THEN {r \in d["integrations"] : r.type = params[1]}
    ELSE IF \E t \in Tables : text = "DELETE FROM " \o t
    THEN d[CHOOSE t \in Tables : text = "DELETE FROM " \o t]
    ELSE {}

StatementTable(text) ==
    IF text = "DELETE FROM integrations WHERE type = $1"
    THEN "integrations"
    ELSE CHOOSE t \in Tables : text = "DELETE FROM " \o t

\* query(text, params): pool.query and rethrow on error.
\* Yields [threw, kind, message, rowCount, db].
query(text, params, out, d) ==
    IF out = "ok"
    THEN LET gone == DeletedRows(text, params, d)
             t == StatementTable(text)
         IN  [threw |-> FALSE, kind |-> "ok", message |-> "",
              rowCount |-> Cardinality(gone),
              db |-> [d EXCEPT ![t] = d[t] \ gone]]
    ELSE [threw |-> TRUE, kind |-> (IF out = "Error" THEN "throw" ELSE "throwNonError"),
          message |-> DbErrorMessage, rowCount |-> 0, db |-> d]

\* clearTable(tableName): DELETE FROM ${tableName}, never throws.
\* Yields [success, rowCount, error, db].
clearTable(tableName, out, d) ==
    LET res == query("DELETE FROM " \o tableName, <<>>, out, d)
    IN  IF ~res.threw
        THEN [success |-> TRUE, rowCount |-> res.rowCount, error |-> NULL, db |-> res.db]
        ELSE [success |-> FALSE, rowCount |-> 0,
              error |-> CaughtMessage(res.kind, res.message), db |-> d]

(***************************************************************************)
(* The admin-password gate every destructive route starts with             *)
(***************************************************************************)
\* process.env.NEXT_PUBLIC_ADMIN_PASSWORD || 'admin123'
ExpectedPassword(env) == OrElse(env, "admin123")

\* mutation of PasswordRejected: any header that is present passes
PasswordRejected_presentOnly(adminPassword, env) == Falsy(adminPassword)

\* !adminPassword || adminPassword !== expectedPassword
PasswordRejected(adminPassword, env) ==
    Falsy(adminPassword) \/ adminPassword # ExpectedPassword(env)

UnauthorizedResponse(d) ==
    Handled(401, RejectionBody("Unauthorized"), NoCall, d)

(***************************************************************************)
(* DELETE /api/<table>/clear: the four routes that call clearTable         *)
(***************************************************************************)
TableClearDELETE(tableName, cleared, failed, adminPassword, env, out, d) ==
    IF PasswordRejected(adminPassword, env)
    THEN UnauthorizedResponse(d)
    ELSE LET result == clearTable(tableName, out, d)
             made == <<SqlCall("DELETE FROM " \o tableName, <<>>, out)>>
         IN  IF result.success
             THEN Handled(200,
                          [success |-> TRUE,
                           message |-> cleared \o " cleared successfully. Removed "
                                       \o ToString(result.rowCount) \o " rows.",
                           timestamp |-> Timestamp,
                           rowCount |-> result.rowCount],
                          made, result.db)
             ELSE Handled(500,
                          FailureBody(failed, result.error),
                          made, result.db)

AnomaliesClearDELETE(adminPassword, env, out, d) ==
    TableClearDELETE("anomaly_flags", "Anomaly flags", "Failed to clear anomaly flags",
                     adminPassword, env, out, d)

TransactionsClearDELETE(adminPassword, env, out, d) ==
    TableClearDELETE("transactions", "Transactions", "Failed to clear transactions",
                     adminPassword, env, out, d)

TransactionItemsClearDELETE(adminPassword, env, out, d) ==
    TableClearDELETE("transaction_items", "Transaction items", "Failed to clear transaction items",
                     adminPassword, env, out, d)

SubmissionsClearDELETE(adminPassword, env, out, d) ==
    TableClearDELETE("submissions", "Submissions", "Failed to clear submissions",
                     adminPassword, env, out, d)

(***************************************************************************)
(* DELETE /api/integrations/clear                                          *)
(***************************************************************************)
\* mutation of IntegrationsClearDELETE: the statement has no WHERE clause
IntegrationsClearDELETE_allTypes(adminPassword, env, out, d) ==
    TableClearDELETE("integrations", "Shopify integrations", "Failed to clear Shopify integrations",
                     adminPassword, env, out, d)

IntegrationsClearDELETE(adminPassword, env, out, d) ==
    IF PasswordRejected(adminPassword, env)
    THEN UnauthorizedResponse(d)
    ELSE LET result == query("DELETE FROM integrations WHERE type = $1", <<"shopify">>, out, d)
             made == <<SqlCall("DELETE FROM integrations WHERE type = $1", <<"shopify">>, out)>>
         IN  IF ~result.threw
             THEN Handled(200,
                          [success |-> TRUE,
                           message |-> "Shopify integrations cleared successfully. Removed "
                                       \o ToString(result.rowCount) \o " rows.",
                           timestamp |-> Timestamp,
                           rowCount |-> result.rowCount],
                          made, result.db)
             ELSE Handled(500,
                          FailureBody("Failed to clear Shopify integrations", IF result.kind = "throwNonError" THEN "Unknown database error" ELSE result.message),
                          made, d)

(***************************************************************************)
(* DELETE /api/vectordb/clear                                              *)
(***************************************************************************)
VectorDbClearDELETE(adminPassword, env, up, d) ==
    IF PasswordRejected(adminPassword, env)
    THEN UnauthorizedResponse(d)
    ELSE LET made == <<HttpCall("DELETE", "/admin/vector-db/clear-all", up)>>
         IN  IF up.kind # "response" \/ ~up.readable
             THEN \* fetch, response.json() or response.text() rejects inside the inner try
                  Handled(500,
                          FailureBody("Failed to call Cooler API",
                                      CaughtMessage(up.kind, FetchErrorMessage)),
                          made, d)
             ELSE IF IsOk(up.status)
             THEN Handled(200,
                          [success |-> TRUE,
                           message |-> "VectorDB cleared successfully",
                           timestamp |-> Timestamp,
                           apiResponse |-> "<json>"],
                          made, d)
             ELSE Handled(up.status,
                          FailureBody("API call failed: " \o ToString(up.status), "<text>"),
                          made, d)


(***************************************************************************)
(* GET /api/api-requests                                                   *)
(***************************************************************************)
\* searchParams.get('limit') || '100'
LimitParam(limit) == OrElse(limit, "100")

ApiRequestsUrl(limit, userId) ==
    IF ~Falsy(userId)
    THEN "/admin/customers/" \o userId \o "/api-requests/recent?limit=" \o LimitParam(limit)
    ELSE "/admin/api-requests/recent?limit=" \o LimitParam(limit)

ApiRequestsGET(limit, userId, up, d) ==
    LET made == <<HttpCall("GET", ApiRequestsUrl(limit, userId), up)>>
        caught == Handled(500,
                          FailureBody("Failed to fetch API requests", CaughtMessage(up.kind, FetchErrorMessage)),
                          made, d)
    IN  IF up.kind # "response" \/ ~up.readable
        THEN caught
        ELSE IF ~IsOk(up.status)
        THEN Handled(up.status,
                     FailureBody("Failed to fetch API requests: " \o ToString(up.status), "<text>"),
                     made, d)
        ELSE Handled(200,
                     [success |-> TRUE, data |-> "<json>", timestamp |-> Timestamp],
                     made, d)

(***************************************************************************)
(* GET /api/transactions/[userId]                                          *)
(***************************************************************************)
\* the static bearer value of the proxy and impersonation routes
ExpectedToken == "Bearer Bearit01!"

\* mutation of TokenRejected: any Authorization header is accepted
TokenRejected_presentOnly(authHeader) == Falsy(authHeader)

\* !authHeader || authHeader !== expectedToken
TokenRejected(authHeader) == Falsy(authHeader) \/ authHeader # ExpectedToken

Min(a, b) == IF a <= b THEN a ELSE b

\* Array.prototype.slice(0, n)
Slice0(list, n) == SubSeq(list, 1, Min(n, Len(list)))

\* the upstream transaction as the route reshapes it (itemCount: tx.itemCount || 0)
FormatTransaction(tx) ==
    [id |-> tx.id,
     dateCreated |-> tx.dateCreated,
     status |-> tx.statusFootprint,
     itemCount |-> IF tx.hasItemCount THEN tx.itemCount ELSE 0,
     stripeUsageId |-> tx.stripeUsageId]

\* mutation of RecentTransactions: the last seven are taken
RecentTransactions_lastSeven(data) ==
    LET list == IF data.hasRecent THEN data.recentTransactions ELSE <<>>
        first == SubSeq(list, Len(list) - Min(7, Len(list)) + 1, Len(list))
    IN  [i \in 1..Len(first) |-> FormatTransaction(first[i])]

\* (data.recentTransactions || []).slice(0, 7).map(...)
RecentTransactions(data) ==
    LET list == IF data.hasRecent THEN data.recentTransactions ELSE <<>>
        first == Slice0(list, 7)
    IN  [i \in 1..Len(first) |-> FormatTransaction(first[i])]

\* data.counts?.transactions || 0
TotalCount(data) == IF data.hasCounts THEN data.transactions ELSE 0

TransactionsGET(authHeader, userId, up, data, d) ==
    IF TokenRejected(authHeader)
    THEN Handled(401, RejectionBody("Unauthorized"), NoCall, d)
    ELSE IF Falsy(userId)
    THEN Handled(400, RejectionBody("userId is required"), NoCall, d)
    ELSE LET made == <<HttpCall("GET", "/admin/customers/" \o userId \o "/database-counts",
                                 Answered(up, data))>>
         IN  IF up.kind # "response" \/ ~up.readable
             THEN Handled(500,
                          FailureBody("Failed to fetch transactions", CaughtMessage(up.kind, FetchErrorMessage)),
                          made, d)
             ELSE IF ~IsOk(up.status)
             THEN Handled(up.status,
                          FailureBody("Failed to fetch transactions: " \o ToString(up.status), "<text>"),
                          made, d)
             ELSE Handled(200,
                          [success |-> TRUE,
                           userId |-> userId,
                           transactions |-> RecentTransactions(data),
                           totalCount |-> TotalCount(data),
                           timestamp |-> Timestamp],
                          made, d)

(***************************************************************************)
(* POST /api/impersonate                                                   *)
(***************************************************************************)
\* 5 * 60 * 1000
MagicLinkLifetimeMs == 300000

\* mutation of SignedToken: the JWT is signed for an hour
SignedToken_hourLong(userId, now) ==
    [payload |-> [userId |-> userId,
                  adminId |-> "admin",
                  readOnly |-> TRUE,
                  expiresAt |-> now + MagicLinkLifetimeMs,
                  iat |-> now \div 1000],
     alg |-> "HS256",
     exp |-> (now \div 1000) + 12 * (MagicLinkLifetimeMs \div 1000)]

\* the JWT: the payload the route builds and the exp claim of setExpirationTime('5m')
SignedToken(userId, now) ==
    [payload |-> [userId |-> userId,
                  adminId |-> "admin",
                  readOnly |-> TRUE,
                  expiresAt |-> now + MagicLinkLifetimeMs,
                  iat |-> now \div 1000],
     alg |-> "HS256",
     exp |-> (now \div 1000) + (MagicLinkLifetimeMs \div 1000)]

\* body: what request.json() yields, [parses, hasUserId, userId]
ImpersonatePOST(authHeader, body, now, d) ==
    IF TokenRejected(authHeader)
    THEN Handled(401, RejectionBody("Unauthorized"), NoCall, d)
    ELSE IF ~body.parses
    THEN Handled(500,
                 FailureBody("Failed to generate magic link", "Unexpected end of JSON input"),
                 NoCall, d)
    ELSE IF ~body.hasUserId \/ Falsy(body.userId)
    THEN Handled(400, RejectionBody("userId is required"), NoCall, d)
    ELSE LET token == SignedToken(body.userId, now)
         IN  Handled(200,
                     [success |-> TRUE,
                      magicLink |-> [path |-> "/transactions", impersonate |-> body.userId,
                                     token |-> token],
                      token |-> token,
                      expiresAt |-> now + MagicLinkLifetimeMs,
                      message |-> "Magic link generated successfully"],
                     NoCall, d)


(***************************************************************************)
(* POST /api/clear-database                                                *)
(***************************************************************************)
\* mutation of ClearTargets: the last try block is missing
ClearTargets_withoutIntegrations ==
    <<"vectordb", "transactions", "transactionItems", "submissions", "anomalies">>

\* the six sub-clears in the order of the handler's try blocks
ClearTargets ==
    <<"vectordb", "transactions", "transactionItems", "submissions", "anomalies", "integrations">>

\* ${baseUrl}/api/.../clear of each target
ClearUrl(target) ==
    CASE target = "vectordb" -> "/api/vectordb/clear"
      [] target = "transactions" -> "/api/transactions/clear"
      [] target = "transactionItems" -> "/api/transaction-items/clear"
      [] target = "submissions" -> "/api/submissions/clear"
      [] target = "anomalies" -> "/api/anomalies/clear"
      [] target = "integrations" -> "/api/integrations/clear"

\* the local route a sub-fetch reaches
LocalRoute(target, adminPassword, env, up, out, d) ==
    CASE target = "vectordb" -> VectorDbClearDELETE(adminPassword, env, up, d)
      [] target = "transactions" -> TransactionsClearDELETE(adminPassword, env, out, d)
      [] target = "transactionItems" -> TransactionItemsClearDELETE(adminPassword, env, out, d)
      [] target = "submissions" -> SubmissionsClearDELETE(adminPassword, env, out, d)
      [] target = "anomalies" -> AnomaliesClearDELETE(adminPassword, env, out, d)
      [] target = "integrations" -> IntegrationsClearDELETE(adminPassword, env, out, d)

\* const results = { vectordb: { success: false, error: null }, ... }
InitialResults == [t \in {ClearTargets[i] : i \in DOMAIN ClearTargets} |-> [success |-> FALSE, error |-> NULL]]

\* how a sub-fetch ends for the handler: the route is never reached, it answers, or
\* it runs but the 10 s AbortSignal fires (or the body is lost) before the answer
FetchEnds == {"refused", "answered", "timeout"}

\* one try block: the result entry it leaves for its target
SubClearResult(ends, status, body) ==
    IF ends # "answered"
    THEN [success |-> FALSE, error |-> FetchErrorMessage]
    ELSE IF IsOk(status)
    THEN [success |-> TRUE, error |-> NULL]
    ELSE [success |-> FALSE, error |-> ToString(status) \o ": " \o ToString(body)]

\* mutation of AfterAttempt: a failed sub-clear ends the run
AfterAttempt_abortOnFailure(c, entry) ==
    [c EXCEPT !.results[ClearTargets[c.next]] = entry,
              !.next = IF entry.success THEN c.next + 1 ELSE Len(ClearTargets) + 1]

\* the handler's locals after the try block of target number c.next
AfterAttempt(c, entry) ==
    [c EXCEPT !.results[ClearTargets[c.next]] = entry, !.next = c.next + 1]

\* Object.values(results).filter(r => r.success).length
SuccessCount(results) == Cardinality({t \in DOMAIN results : results[t].success})

\* Object.keys(results).length
ResultsCount(results) == Cardinality(DOMAIN results)

\* mutation of OverallSuccess: one cleared target is enough
OverallSuccess_anyCleared(successCount, totalCount) == successCount > 0

\* const overallSuccess = successCount === totalCount
OverallSuccess(successCount, totalCount) == successCount = totalCount

ClearDatabaseBody(results) ==
    LET successCount == SuccessCount(results)
        totalCount == ResultsCount(results)
        overallSuccess == OverallSuccess(successCount, totalCount)
    IN  [success |-> overallSuccess,
         message |-> IF overallSuccess
                     THEN "Successfully cleared " \o ToString(successCount) \o "/"
                          \o ToString(totalCount) \o " database tables"
                     ELSE "Cleared " \o ToString(successCount) \o "/"
                          \o ToString(totalCount) \o " database tables with some errors",
         results |-> results,
         summary |-> [cleared |-> successCount,
                      total |-> totalCount,
                      errors |-> totalCount - successCount]]


(***************************************************************************)
(* The server: one request handled at a time; req, resp and calls hold the *)
(* request in hand until its response has been sent                        *)
(***************************************************************************)
\* most transactions the upstream lists in recentTransactions
MaxTransactions == 8

AuthorizationHeaders == {NULL, ExpectedToken, "Bearer wrong"}

UserIds == {"", "u1"}

LimitParams == {NULL, "25"}

UpstreamTransaction(i) ==
    [id |-> i, dateCreated |-> i, statusFootprint |-> "COMPLETE",
     hasItemCount |-> (i % 2 = 1), itemCount |-> i % 3, stripeUsageId |-> "su"]

\* bodies of GET /admin/customers/:id/database-counts
NoCounts == [hasRecent |-> FALSE, recentTransactions |-> <<>>, hasCounts |-> FALSE, transactions |-> 0]

UpstreamCounts ==
    {NoCounts}
    \cup {[hasRecent |-> TRUE,
           recentTransactions |-> [i \in 1..n |-> UpstreamTransaction(i)],
           hasCounts |-> TRUE, transactions |-> n + 5] : n \in 0..MaxTransactions}

\* Date.now() readings, in milliseconds
Times == {1000, 61500}

\* a request without a body: request.json() rejects
EmptyBody == [parses |-> FALSE, hasUserId |-> FALSE, userId |-> ""]

\* request bodies: not JSON (or not an object), JSON without userId, with an empty
\* userId, with a userId
ImpersonateBodies ==
    {EmptyBody,
     [parses |-> TRUE, hasUserId |-> FALSE, userId |-> ""],
     [parses |-> TRUE, hasUserId |-> TRUE, userId |-> ""],
     [parses |-> TRUE, hasUserId |-> TRUE, userId |-> "u1"]}

NoRequest ==
    [route |-> "-", method |-> "-", adminPassword |-> NULL, authorization |-> NULL,
     body |-> EmptyBody]

Request(method, route, adminPassword, authorization) ==
    [route |-> route, method |-> method, adminPassword |-> adminPassword,
     authorization |-> authorization, body |-> EmptyBody]

\* no response yet: none requested, or the handler is still running
NoResponse == [status |-> 0, body |-> [pending |-> TRUE]]

CdIdle == [pc |-> "idle", adminPassword |-> NULL, results |-> InitialResults, next |-> 1]

FullDb == [t \in Tables |-> FullTable(t)]

InitRoutes ==
    /\ envAdminPassword \in EnvPasswords
    /\ db = FullDb
    /\ req = NoRequest
    /\ resp = NoResponse
    /\ calls = NoCall
    /\ cd = CdIdle

\* a handler that runs to its response in one step
Serve(request, h) ==
    /\ req = NoRequest
    /\ req' = request
    /\ resp' = [status |-> h.status, body |-> h.body]
    /\ calls' = h.calls
    /\ db' = h.db
    /\ UNCHANGED <<envAdminPassword, cd, processorVars, clientVars>>

AnomaliesClear ==
    \E adminPassword \in PasswordHeaders, out \in DbOutcomes :
        Serve(Request("DELETE", "/api/anomalies/clear", adminPassword, NULL),
              AnomaliesClearDELETE(adminPassword, envAdminPassword, out, db))

TransactionsClear ==
    \E adminPassword \in PasswordHeaders, out \in DbOutcomes :
        Serve(Request("DELETE", "/api/transactions/clear", adminPassword, NULL),
              TransactionsClearDELETE(adminPassword, envAdminPassword, out, db))

TransactionItemsClear ==
    \E adminPassword \in PasswordHeaders, out \in DbOutcomes :
        Serve(Request("DELETE", "/api/transaction-items/clear", adminPassword, NULL),
              TransactionItemsClearDELETE(adminPassword, envAdminPassword, out, db))

SubmissionsClear ==
    \E adminPassword \in PasswordHeaders, out \in DbOutcomes :
        Serve(Request("DELETE", "/api/submissions/clear", adminPassword, NULL),
              SubmissionsClearDELETE(adminPassword, envAdminPassword, out, db))

IntegrationsClear ==
    \E adminPassword \in PasswordHeaders, out \in DbOutcomes :
        Serve(Request("DELETE", "/api/integrations/clear", adminPassword, NULL),
              IntegrationsClearDELETE(adminPassword, envAdminPassword, out, db))

VectorDbClear ==
    \E adminPassword \in PasswordHeaders, up \in UpstreamOutcomes :
        Serve(Request("DELETE", "/api/vectordb/clear", adminPassword, NULL),
              VectorDbClearDELETE(adminPassword, envAdminPassword, up, db))

ApiRequests ==
    \E limit \in LimitParams, userId \in {NULL, "u1"}, up \in UpstreamOutcomes :
        Serve(Request("GET", "/api/api-requests", NULL, NULL),
              ApiRequestsGET(limit, userId, up, db))

Transactions ==
    \E authHeader \in AuthorizationHeaders, userId \in UserIds, up \in UpstreamOutcomes :
      \E data \in (IF up.kind = "response" /\ up.readable /\ IsOk(up.status)
                   THEN UpstreamCounts ELSE {NoCounts}) :
        Serve(Request("GET", "/api/transactions/[userId]", NULL, authHeader),
              TransactionsGET(authHeader, userId, up, data, db))

Impersonate ==
    \E authHeader \in AuthorizationHeaders, body \in ImpersonateBodies, now \in Times :
        Serve([Request("POST", "/api/impersonate", NULL, authHeader) EXCEPT !.body = body],
              ImpersonatePOST(authHeader, body, now, db))

\* POST /api/clear-database up to its first await: the gate, then the locals
ClearDatabaseStart ==
    \E adminPassword \in PasswordHeaders :
        /\ req = NoRequest
        /\ req' = Request("POST", "/api/clear-database", adminPassword, NULL)
        /\ calls' = NoCall
        /\ IF PasswordRejected(adminPassword, envAdminPassword)
           THEN /\ resp' = [status |-> 401, body |-> RejectionBody("Unauthorized")]
                /\ cd' = CdIdle
           ELSE /\ resp' = NoResponse
                /\ cd' = [pc |-> "running", adminPassword |-> adminPassword,
                          results |-> InitialResults, next |-> 1]
        /\ UNCHANGED <<envAdminPassword, db, processorVars, clientVars>>

\* one try block of the handler: the sub-fetch of the next target and its result
ClearDatabaseAttempt ==
    \E ends \in FetchEnds, up \in UpstreamOutcomes, out \in DbOutcomes :
        /\ cd.pc = "running"
        /\ cd.next <= Len(ClearTargets)
        /\ ends = "refused" => (up = NoUpstream /\ out = "ok")
        /\ IF ClearTargets[cd.next] = "vectordb" THEN out = "ok" ELSE up = NoUpstream
        /\ LET target == ClearTargets[cd.next]
               h == LocalRoute(target, cd.adminPassword, envAdminPassword, up, out, db)
               seen == IF ends = "answered"
                       THEN [kind |-> "response", status |-> h.status, readable |-> TRUE]
                       ELSE [kind |-> "throw", status |-> 0, readable |-> FALSE]
           IN  /\ calls' = Append(calls, HttpCall("DELETE", ClearUrl(target), seen))
               /\ db' = IF ends = "refused" THEN db ELSE h.db
               /\ cd' = AfterAttempt(cd, SubClearResult(ends, h.status, h.body))
        /\ UNCHANGED <<envAdminPassword, req, resp, processorVars, clientVars>>

\* after the last try block: the summary and the response
ClearDatabaseRespond ==
    /\ cd.pc = "running"
    /\ cd.next > Len(ClearTargets)
    /\ resp' = [status |-> 200, body |-> ClearDatabaseBody(cd.results)]
    /\ cd' = CdIdle
    /\ UNCHANGED <<envAdminPassword, db, req, calls, processorVars, clientVars>>

\* the response leaves the server; the handler's frame is gone
ResponseSent ==
    /\ resp # NoResponse
    /\ req' = NoRequest
    /\ resp' = NoResponse
    /\ calls' = NoCall
    /\ UNCHANGED <<envAdminPassword, db, cd, processorVars, clientVars>>

\* the upstream system, which owns the rows, writes them again
UpstreamWrite ==
    /\ db # FullDb
    /\ db' = FullDb
    /\ UNCHANGED <<envAdminPassword, req, resp, calls, cd, processorVars, clientVars>>

NextRoutes ==
    \/ AnomaliesClear
    \/ TransactionsClear
    \/ TransactionItemsClear
    \/ SubmissionsClear
    \/ IntegrationsClear
    \/ VectorDbClear
    \/ ApiRequests
    \/ Transactions
    \/ Impersonate
    \/ ClearDatabaseStart
    \/ ClearDatabaseAttempt
    \/ ClearDatabaseRespond
    \/ ResponseSent
    \/ UpstreamWrite


(***************************************************************************)
(* components/AnomalyProcessor.tsx                                         *)
(***************************************************************************)
\* Resolve clicks, close clicks and form edits one dialog instance sees
MaxResolveClicks == 2

MaxCloseClicks == 1

MaxEdits == 2

\* RESOLUTION_ACTIONS, in the order of the radio group
RESOLUTION_ACTIONS == <<"UPDATE_SUBMISSION", "UPDATE_NAICS_CODE", "UPDATE_PRICE", "MARK_RESOLVED">>

ResolutionAction == {RESOLUTION_ACTIONS[i] : i \in DOMAIN RESOLUTION_ACTIONS}

\* useState<ResolutionAction>('MARK_RESOLVED')
InitialAction == "MARK_RESOLVED"

\* the anomalies the dialog is opened for: with a submission, and without one
Anomalies ==
    {[id |-> "anomaly-1", hasSubmission |-> TRUE,
      submission |-> [title |-> "Test Product", manufacturer |-> "Test Manufacturer",
                      category |-> "Electronics", description |-> "A test product description",
                      price |-> 99, currency |-> "EUR", naicsCode |-> "339999"]],
     [id |-> "anomaly-2", hasSubmission |-> FALSE,
      submission |-> [title |-> "", manufacturer |-> "", category |-> "", description |-> "",
                      price |-> 0, currency |-> "", naicsCode |-> ""]]}

\* anomaly.submission?.f || default
InitialSubmissionData(a) ==
    [title |-> OrElse(a.submission.title, ""),
     manufacturer |-> OrElse(a.submission.manufacturer, ""),
     category |-> OrElse(a.submission.category, ""),
     description |-> OrElse(a.submission.description, ""),
     price |-> a.submission.price,
     currency |-> OrElse(a.submission.currency, "USD"),
     naicsCode |-> OrElse(a.submission.naicsCode, "")]

\* parseFloat(e.target.value) || 0 on the texts a user types into the price input
ParsedPrice(text) ==
    CASE text = "149" -> 149
      [] text = "0" -> 0
      [] OTHER -> 0

PriceInputs == {"149", "0", "", "abc"}

\* the <option>s of the currency select
Currencies == {"USD", "EUR", "GBP", "CAD"}

\* mutation of VisibleForms: the NAICS form is not hidden for UPDATE_SUBMISSION
VisibleForms_naicsWithDetails(action) ==
    (IF action = "UPDATE_SUBMISSION" THEN {"productDetails"} ELSE {})
    \cup (IF action = "UPDATE_PRICE" THEN {"price"} ELSE {})
    \cup (IF action \in {"UPDATE_NAICS_CODE", "UPDATE_SUBMISSION"} THEN {"naics"} ELSE {})

\* the forms the render shows for the selected action
VisibleForms(action) ==
    (IF action = "UPDATE_SUBMISSION" THEN {"productDetails"} ELSE {})
    \cup (IF action = "UPDATE_PRICE" THEN {"price"} ELSE {})
    \cup (IF action = "UPDATE_NAICS_CODE" THEN {"naics"} ELSE {})

\* mutation of RequestData: UPDATE_PRICE sends the price without its currency
RequestData_priceWithoutCurrency(action, notes, data) ==
    LET base == [action |-> action, notes |-> notes]
    IN  IF action = "UPDATE_SUBMISSION"
        THEN base @@ [submissionData |-> data]
        ELSE IF action = "UPDATE_NAICS_CODE"
        THEN base @@ [naicsCode |-> data.naicsCode]
        ELSE IF action = "UPDATE_PRICE"
        THEN base @@ [price |-> data.price]
        ELSE base

\* requestData of handleResolve
RequestData(action, notes, data) ==
    LET base == [action |-> action, notes |-> notes]
    IN  IF action = "UPDATE_SUBMISSION"
        THEN base @@ [submissionData |-> data]
        ELSE IF action = "UPDATE_NAICS_CODE"
        THEN base @@ [naicsCode |-> data.naicsCode]
        ELSE IF action = "UPDATE_PRICE"
        THEN base @@ [price |-> data.price, currency |-> data.currency]
        ELSE base

\* the axios.post call of handleResolve
ResolveRequest(a, action, notes, data) ==
    [method |-> "POST",
     url |-> "/admin/anomalies/" \o a.id \o "/resolve",
     data |-> RequestData(action, notes, data),
     headers |-> [Authorization |-> "Bearer Bearit01!"]]

\* how the request settles: rejected (with an Error or not), or resolved with a body
ResolveOutcomes ==
    {[kind |-> "throw", hasSuccess |-> FALSE, success |-> FALSE, error |-> ""],
     [kind |-> "throwNonError", hasSuccess |-> FALSE, success |-> FALSE, error |-> ""],
     [kind |-> "response", hasSuccess |-> TRUE, success |-> TRUE, error |-> ""],
     [kind |-> "response", hasSuccess |-> TRUE, success |-> FALSE, error |-> "Anomaly not found"],
     [kind |-> "response", hasSuccess |-> TRUE, success |-> FALSE, error |-> ""],
     [kind |-> "response", hasSuccess |-> FALSE, success |-> FALSE, error |-> ""]}

RejectionMessage == "Network Error"

\* what the upstream said: a body whose success is true
SaidSuccess(outcome) == outcome.kind = "response" /\ outcome.hasSuccess /\ outcome.success

\* mutation of ResponseSucceeded: only an explicit success=false fails
ResponseSucceeded_unlessFalse(outcome) ==
    outcome.kind = "response" /\ (outcome.hasSuccess => outcome.success)

\* a request that settled with a body, and whether the handler takes the success branch:
\* if (response.data.success)
ResponseSucceeded(outcome) ==
    outcome.kind = "response" /\ outcome.hasSuccess /\ outcome.success

\* the message of the error the catch block sees
ResolveErrorMessage(outcome) ==
    IF outcome.kind = "response"
    THEN OrElse(outcome.error, "Failed to resolve anomaly")
    ELSE CaughtMessage(outcome.kind, RejectionMessage)

\* alert(`Failed to resolve anomaly: ${...}`)
AlertText(message) == "Failed to resolve anomaly: " \o message

OnResolvedCall(id) == [name |-> "onResolved", arg |-> id]

OnCloseCall == [name |-> "onClose", arg |-> NULL]

\* mutation of SuccessCalls: the dialog is closed before the parent is told
SuccessCalls_closeFirst(id) == <<OnCloseCall, OnResolvedCall(id)>>

\* the success branch: onResolved(anomaly.id); onClose();
SuccessCalls(id) == <<OnResolvedCall(id), OnCloseCall>>

\* mutation of ButtonDisabled: the buttons stay enabled while a request is pending
ButtonDisabled_never(processing) == FALSE

\* disabled={isProcessing}, on the Cancel and on the Resolve button
ButtonDisabled(processing) == processing

\* the text of the Resolve button: isProcessing ? 'Processing...' : 'Resolve Anomaly'
ResolveButtonText(processing) == IF processing THEN "Processing..." ELSE "Resolve Anomaly"

NoHistory == [resolveClicks |-> 0, closeClicks |-> 0, edits |-> 0, successes |-> 0, failures |-> 0]

\* the dialog as rendered for anomaly a
Rendered(a) ==
    /\ anomaly = a
    /\ mounted = TRUE
    /\ isProcessing = FALSE
    /\ selectedAction = InitialAction
    /\ resolutionNotes = ""
    /\ submissionData = InitialSubmissionData(a)
    /\ inflight = <<>>
    /\ callbacks = <<>>
    /\ alerts = <<>>
    /\ history = NoHistory

InitProcessor == \E a \in Anomalies : Rendered(a)

Edited == history' = [history EXCEPT !.edits = @ + 1]

CanEdit == mounted /\ history.edits < MaxEdits

\* the radio group's onChange
SelectAction ==
    \E i \in DOMAIN RESOLUTION_ACTIONS :
        /\ CanEdit
        /\ selectedAction' = RESOLUTION_ACTIONS[i]
        /\ Edited
        /\ UNCHANGED <<anomaly, mounted, isProcessing, resolutionNotes, submissionData,
                       inflight, callbacks, alerts, routeVars, clientVars>>

\* an input's onChange: setSubmissionData(prev => ({ ...prev, [field]: value }))
SetField(form, field, value) ==
    /\ CanEdit
    /\ form \in VisibleForms(selectedAction)
    /\ submissionData' = [submissionData EXCEPT ![field] = value]
    /\ Edited
    /\ UNCHANGED <<anomaly, mounted, isProcessing, selectedAction, resolutionNotes,
                   inflight, callbacks, alerts, routeVars, clientVars>>

EditTitle == SetField("productDetails", "title", "Fixed title")

EditManufacturer == SetField("productDetails", "manufacturer", "Fixed manufacturer")

EditCategory == SetField("productDetails", "category", "Toys")

EditDetailsNaicsCode == SetField("productDetails", "naicsCode", "334111")

EditDescription == SetField("productDetails", "description", "Fixed description")

EditPrice == \E text \in PriceInputs : SetField("price", "price", ParsedPrice(text))

EditCurrency == \E c \in Currencies : SetField("price", "currency", c)

EditNaicsCode == \E code \in {"334111", ""} : SetField("naics", "naicsCode", code)

\* the notes textarea's onChange
EditNotes ==
    \E text \in {"", "Fixed product title"} :
        /\ CanEdit
        /\ resolutionNotes' = text
        /\ Edited
        /\ UNCHANGED <<anomaly, mounted, isProcessing, selectedAction, submissionData,
                       inflight, callbacks, alerts, routeVars, clientVars>>

\* handleResolve up to its await (the button is disabled while isProcessing)
ClickResolve ==
    /\ mounted
    /\ ~ButtonDisabled(isProcessing)
    /\ history.resolveClicks < MaxResolveClicks
    /\ isProcessing' = TRUE
    /\ inflight' = Append(inflight,
                          ResolveRequest(anomaly, selectedAction, resolutionNotes, submissionData))
    /\ history' = [history EXCEPT !.resolveClicks = @ + 1]
    /\ UNCHANGED <<anomaly, mounted, selectedAction, resolutionNotes, submissionData,
                   callbacks, alerts, routeVars, clientVars>>

\* handleResolve after its await: the success branch, the catch, the finally.
\* onClose lets the parent stop rendering the dialog (or not, as in the tests).
ResolveSettles ==
    \E outcome \in ResolveOutcomes, stays \in BOOLEAN :
        /\ inflight # <<>>
        /\ inflight' = Tail(inflight)
        /\ IF ResponseSucceeded(outcome)
           THEN /\ callbacks' = callbacks \o SuccessCalls(anomaly.id)
                /\ alerts' = alerts
                /\ mounted' = (mounted /\ stays)
           ELSE /\ callbacks' = callbacks
                /\ alerts' = Append(alerts, AlertText(ResolveErrorMessage(outcome)))
                /\ mounted' = mounted
                /\ stays
        /\ history' = IF SaidSuccess(outcome)
                      THEN [history EXCEPT !.successes = @ + 1]
                      ELSE [history EXCEPT !.failures = @ + 1]
        /\ isProcessing' = FALSE
        /\ UNCHANGED <<anomaly, selectedAction, resolutionNotes, submissionData, routeVars, clientVars>>

\* mutation of CloseCalls: the click reaches onClose twice
CloseCalls_twice == <<OnCloseCall, OnCloseCall>>

\* onClick={onClose}: what a click on Cancel or on X calls
CloseCalls == <<OnCloseCall>>

Closes(stays) ==
    /\ mounted
    /\ history.closeClicks < MaxCloseClicks
    /\ callbacks' = callbacks \o CloseCalls
    /\ mounted' = stays
    /\ history' = [history EXCEPT !.closeClicks = @ + 1]
    /\ UNCHANGED <<anomaly, isProcessing, selectedAction, resolutionNotes, submissionData,
                   inflight, alerts, routeVars, clientVars>>

\* the Cancel button: onClick={onClose} disabled={isProcessing}
ClickCancel == \E stays \in BOOLEAN : ~ButtonDisabled(isProcessing) /\ Closes(stays)

\* the X button of the header: onClick={onClose}
ClickX == \E stays \in BOOLEAN : Closes(stays)

NextProcessor ==
    \/ SelectAction
    \/ EditTitle
    \/ EditManufacturer
    \/ EditCategory
    \/ EditDetailsNaicsCode
    \/ EditDescription
    \/ EditPrice
    \/ EditCurrency
    \/ EditNaicsCode
    \/ EditNotes
    \/ ClickResolve
    \/ ResolveSettles
    \/ ClickCancel
    \/ ClickX

(***************************************************************************)
(* AnomaliesPage: the anomalies list, its details view and its processor   *)
(* dialog (AnomalyProcessor with onResolved={handleAnomalyResolved} and    *)
(* onClose={handleCloseProcessor})                                         *)
(***************************************************************************)
\* resolve requests (PATCH or POST) the page and its dialogs send in a run
MaxSent == 2

Max(a, b) == IF a > b THEN a ELSE b

\* useState<AnomalyFlag | null>(null)
NoAnomaly == [id |-> NULL]

\* a row of GET /admin/anomalies
Listed(id, resolved) ==
    LET a == CHOOSE x \in Anomalies : x.id = id
    IN  [id |-> a.id, hasSubmission |-> a.hasSubmission, submission |-> a.submission,
         resolved |-> resolved]

\* pages of anomalies the API may answer with
ServerPages ==
    {<<>>,
     <<Listed("anomaly-1", FALSE), Listed("anomaly-2", FALSE)>>,
     <<Listed("anomaly-2", FALSE), Listed("anomaly-1", TRUE)>>}

\* useState<AnomalyStats | null>(null)
NoStats == [loaded |-> FALSE, totalAnomalies |-> 0, unresolvedAnomalies |-> 0, resolvedAnomalies |-> 0]

\* bodies of GET /admin/anomalies/stats
ServerStats ==
    {[loaded |-> TRUE, totalAnomalies |-> u + 1, unresolvedAnomalies |-> u, resolvedAnomalies |-> 1] :
        u \in 0..1}

\* a request that has not settled: the list or statistics fetch, the page's PATCH, or
\* the dialog's post with what its handleResolve closed over (the anomaly's id and the
\* onResolved of that render, which saw anomalyStats loaded or not) and whether the
\* dialog that sent it is still mounted
Pending(kind, n, id, statsSeen, dialog) ==
    [kind |-> kind, n |-> n, id |-> id, statsSeen |-> statsSeen, dialog |-> dialog]

Fetch(kind) == Pending(kind, 0, NULL, FALSE, "-")

\* the requests of a dialog outlive it
Unmounted(requests) ==
    {IF r.kind = "handleResolve" THEN [r EXCEPT !.dialog = "unmounted"] ELSE r : r \in requests}

\* the page as first rendered, its useEffect having started both fetches
InitAnomaliesPage ==
    /\ page = [anomalies |-> <<>>, anomalyStats |-> NoStats,
               selectedAnomaly |-> NoAnomaly, showAnomalyDetails |-> FALSE,
               processingAnomaly |-> NoAnomaly, showAnomalyProcessor |-> FALSE]
    /\ sent = <<>>
    /\ pending = {Fetch("fetchAnomalies"), Fetch("fetchAnomalyStats")}
    /\ delivered = <<>>

\* handleAnomalyResolved as created by the render that saw anomalyStats loaded (or
\* not): useCallback(..., [anomalyStats])
handleAnomalyResolved(p, anomalyId, statsSeen) ==
    [p EXCEPT !.anomalies = SelectSeq(@, LAMBDA a : a.id # anomalyId),
              !.anomalyStats =
                  IF statsSeen /\ @.loaded
                  THEN [@ EXCEPT !.unresolvedAnomalies = Max(0, @ - 1),
                                 !.resolvedAnomalies = @ + 1]
                  ELSE @,
              !.showAnomalyProcessor = FALSE,
              !.processingAnomaly = NoAnomaly]

handleProcessAnomaly(p, a) ==
    [p EXCEPT !.processingAnomaly = a, !.showAnomalyProcessor = TRUE]

\* mutation of handleCloseProcessor: the anomaly is kept
handleCloseProcessor_keepsAnomaly(p) ==
    [p EXCEPT !.showAnomalyProcessor = FALSE]

handleCloseProcessor(p) ==
    [p EXCEPT !.showAnomalyProcessor = FALSE, !.processingAnomaly = NoAnomaly]

handleAnomalyClick(p, a) ==
    [p EXCEPT !.selectedAnomaly = a, !.showAnomalyDetails = TRUE]

\* if (showAnomalyDetails && selectedAnomaly) return <the details view>
DetailsShown(p) == p.showAnomalyDetails /\ p.selectedAnomaly # NoAnomaly

\* {showAnomalyProcessor && processingAnomaly && (<AnomalyProcessor ... />)}
DialogShown(p) == ~DetailsShown(p) /\ p.showAnomalyProcessor /\ p.processingAnomaly # NoAnomaly

\* isProcessing of the dialog now mounted
DialogProcessing == \E r \in pending : r.kind = "handleResolve" /\ r.dialog = "mounted"

\* mutation of resolveAnomaly: the details view posts as the dialog does
resolveAnomaly_post(anomalyId, notes) ==
    [method |-> "POST",
     url |-> "/admin/anomalies/" \o anomalyId \o "/resolve",
     data |-> [resolutionNotes |-> notes],
     headers |-> [Authorization |-> "Bearer Bearit01!"]]

\* the axios.patch call of resolveAnomaly
resolveAnomaly(anomalyId, notes) ==
    [method |-> "PATCH",
     url |-> "/admin/anomalies/" \o anomalyId \o "/resolve",
     data |-> [resolutionNotes |-> notes],
     headers |-> [Authorization |-> "Bearer Bearit01!"]]

\* the parent's handlers run for the calls the dialog makes, in order
RECURSIVE Deliver(_, _, _)
Deliver(made, statsSeen, p) ==
    IF made = <<>>
    THEN p
    ELSE Deliver(Tail(made), statsSeen,
                 IF Head(made).name = "onResolved"
                 THEN handleAnomalyResolved(p, Head(made).arg, statsSeen)
                 ELSE handleCloseProcessor(p))

PageFrame == UNCHANGED <<routeVars, processorVars, pollVars, dashVars, listVars, loginVars>>

\* fetchAnomalies settles: the list is replaced, or the error is logged. After a
\* resolveAnomaly the statistics are fetched next.
FetchAnomaliesSettles ==
    \E r \in pending, ok \in BOOLEAN, list \in ServerPages :
        /\ r.kind \in {"fetchAnomalies", "refresh"}
        /\ ~ok => list = <<>>
        /\ page' = IF ok THEN [page EXCEPT !.anomalies = list] ELSE page
        /\ pending' = (pending \ {r})
                      \cup (IF r.kind = "refresh" THEN {Fetch("fetchAnomalyStats")} ELSE {})
        /\ UNCHANGED <<sent, delivered>>
        /\ PageFrame

\* fetchAnomalyStats settles
FetchAnomalyStatsSettles ==
    \E r \in pending, ok \in BOOLEAN, stats \in ServerStats :
        /\ r.kind = "fetchAnomalyStats"
        /\ ~ok => stats = CHOOSE x \in ServerStats : TRUE
        /\ page' = IF ok THEN [page EXCEPT !.anomalyStats = stats] ELSE page
        /\ pending' = pending \ {r}
        /\ UNCHANGED <<sent, delivered>>
        /\ PageFrame

\* the View button of a row
ViewAnomaly ==
    \E i \in DOMAIN page.anomalies :
        /\ ~DetailsShown(page)
        /\ ~DialogShown(page)
        /\ page' = handleAnomalyClick(page, page.anomalies[i])
        /\ UNCHANGED <<sent, pending, delivered>>
        /\ PageFrame

\* onBackClick={() => setShowAnomalyDetails(false)}
BackToAnomalies ==
    /\ DetailsShown(page)
    /\ page' = [page EXCEPT !.showAnomalyDetails = FALSE]
    /\ UNCHANGED <<sent, pending, delivered>>
    /\ PageFrame

\* the 'Mark as Resolved' button of the details view of an unresolved anomaly
MarkAsResolved ==
    \E notes \in {"duplicate"} :
        /\ DetailsShown(page)
        /\ ~page.selectedAnomaly.resolved
        /\ Len(sent) < MaxSent
        /\ sent' = Append(sent, resolveAnomaly(page.selectedAnomaly.id, notes))
        /\ pending' = pending \cup {Pending("resolveAnomaly", Len(sent) + 1,
                                            page.selectedAnomaly.id, FALSE, "-")}
        /\ page' = [page EXCEPT !.showAnomalyDetails = FALSE]
        /\ UNCHANGED delivered
        /\ PageFrame

\* resolveAnomaly after its await: refresh the data, or log the error
ResolveAnomalySettles ==
    \E r \in pending, ok \in BOOLEAN :
        /\ r.kind = "resolveAnomaly"
        /\ pending' = (pending \ {r}) \cup (IF ok THEN {Fetch("refresh")} ELSE {})
        /\ UNCHANGED <<page, sent, delivered>>
        /\ PageFrame

\* the Process button, rendered for the rows with !anomaly.resolved
ProcessAnomaly ==
    \E i \in DOMAIN page.anomalies :
        /\ ~DetailsShown(page)
        /\ ~DialogShown(page)
        /\ ~page.anomalies[i].resolved
        /\ page' = handleProcessAnomaly(page, page.anomalies[i])
        /\ UNCHANGED <<sent, pending, delivered>>
        /\ PageFrame

\* the dialog's Resolve button: handleResolve up to its await
DialogResolve ==
    \E action \in {InitialAction} :
        /\ DialogShown(page)
        /\ ~ButtonDisabled(DialogProcessing)
        /\ Len(sent) < MaxSent
        /\ sent' = Append(sent, ResolveRequest(page.processingAnomaly, action, "",
                                               InitialSubmissionData(page.processingAnomaly)))
        /\ pending' = pending \cup {Pending("handleResolve", Len(sent) + 1,
                                            page.processingAnomaly.id,
                                            page.anomalyStats.loaded, "mounted")}
        /\ UNCHANGED <<page, delivered>>
        /\ PageFrame

\* the dialog's handleResolve after its await, calling the parent's handlers
DialogResolveSettles ==
    \E r \in pending, outcome \in ResolveOutcomes :
        /\ r.kind = "handleResolve"
        /\ LET made == IF ResponseSucceeded(outcome) THEN SuccessCalls(r.id) ELSE <<>>
           IN  /\ delivered' = made
               /\ page' = Deliver(made, r.statsSeen, page)
        /\ pending' = IF DialogShown(page') THEN pending \ {r} ELSE Unmounted(pending \ {r})
        /\ UNCHANGED sent
        /\ PageFrame

\* the dialog's X button, or its Cancel button while no request is pending
DialogClose ==
    /\ DialogShown(page)
    /\ delivered' = <<OnCloseCall>>
    /\ page' = Deliver(delivered', FALSE, page)
    /\ pending' = Unmounted(pending)
    /\ UNCHANGED sent
    /\ PageFrame

NextAnomaliesPage ==
    \/ FetchAnomaliesSettles
    \/ FetchAnomalyStatsSettles
    \/ ViewAnomaly
    \/ BackToAnomalies
    \/ MarkAsResolved
    \/ ResolveAnomalySettles
    \/ ProcessAnomaly
    \/ DialogResolve
    \/ DialogResolveSettles
    \/ DialogClose

(***************************************************************************)
(* ApiRequestsPage: the request list and its polling                       *)
(***************************************************************************)
\* useState(5000)
RefreshIntervalMs == 5000

\* fetchApiRequests calls awaiting their response at a time
MaxFetches == 2

\* the page before its first effects have run
InitApiRequestsPage ==
    /\ apiPage \in {[mounted |-> FALSE, autoRefresh |-> TRUE, refreshInterval |-> RefreshIntervalMs,
                     userIdFilter |-> u, interval |-> 0,
                     loading |-> TRUE, error |-> NULL, requests |-> 0] : u \in UserIds}
    /\ timers = {}
    /\ apiFetches = <<>>

\* a timer id that no active timer has
NewTimer(active) == CHOOSE n \in 1..(Cardinality(active) + 1) : \A t \in active : t.id # n

\* mutation of PollingEffect: the effect has no cleanup
PollingEffect_noCleanup(active, held, auto, period, userId) ==
    IF auto
    THEN [timers |-> active \cup {[id |-> NewTimer(active), period |-> period, userId |-> userId]},
          interval |-> NewTimer(active)]
    ELSE [timers |-> active, interval |-> 0]

\* the polling effect re-run: the cleanup of its previous run (clearInterval of the
\* timer that run holds), then if (!autoRefresh) return; setInterval(fetchApiRequests,
\* refreshInterval), fetchApiRequests being the one that reads userId
PollingEffect(active, held, auto, period, userId) ==
    LET cleared == {t \in active : t.id # held}
    IN  IF auto
        THEN [timers |-> cleared \cup {[id |-> NewTimer(cleared), period |-> period, userId |-> userId]},
              interval |-> NewTimer(cleared)]
        ELSE [timers |-> cleared, interval |-> 0]

\* fetchApiRequests up to its await: setError(null), then the GET with the filter
\* the callback closed over
ApiFetch(cause, userId) == [cause |-> cause, userId |-> userId]

ApiFrame == UNCHANGED <<routeVars, processorVars, pageVars, dashVars, listVars, loginVars>>

\* the first render's effects: fetchApiRequests(), and the polling effect
MountApiRequestsPage ==
    /\ ~apiPage.mounted
    /\ LET e == PollingEffect(timers, apiPage.interval, apiPage.autoRefresh,
                              apiPage.refreshInterval, apiPage.userIdFilter)
       IN  /\ timers' = e.timers
           /\ apiPage' = [apiPage EXCEPT !.mounted = TRUE, !.interval = e.interval]
    /\ apiFetches' = Append(apiFetches, ApiFetch("mount", apiPage.userIdFilter))
    /\ ApiFrame

\* the Pause / Resume button: setAutoRefresh(!autoRefresh), then the polling effect
ToggleAutoRefresh ==
    /\ apiPage.mounted
    /\ LET e == PollingEffect(timers, apiPage.interval, ~apiPage.autoRefresh,
                              apiPage.refreshInterval, apiPage.userIdFilter)
       IN  /\ timers' = e.timers
           /\ apiPage' = [apiPage EXCEPT !.autoRefresh = ~@, !.interval = e.interval]
    /\ UNCHANGED apiFetches
    /\ ApiFrame

\* setUserIdFilter(v): fetchApiRequests is created anew, so both effects run again
ChangeUserFilter ==
    \E v \in UserIds :
        /\ apiPage.mounted
        /\ v # apiPage.userIdFilter
        /\ Len(apiFetches) < MaxFetches
        /\ LET e == PollingEffect(timers, apiPage.interval, apiPage.autoRefresh,
                                  apiPage.refreshInterval, v)
           IN  /\ timers' = e.timers
               /\ apiPage' = [apiPage EXCEPT !.userIdFilter = v, !.interval = e.interval,
                                             !.error = NULL]
        /\ apiFetches' = Append(apiFetches, ApiFetch("filter", v))
        /\ ApiFrame

\* the refresh button: onClick={fetchApiRequests}
ManualRefresh ==
    /\ apiPage.mounted
    /\ Len(apiFetches) < MaxFetches
    /\ apiFetches' = Append(apiFetches, ApiFetch("manual", apiPage.userIdFilter))
    /\ apiPage' = [apiPage EXCEPT !.error = NULL]
    /\ UNCHANGED timers
    /\ ApiFrame

\* an active timer fires and calls the fetchApiRequests it was started with
TimerFires ==
    \E t \in timers :
        /\ Len(apiFetches) < MaxFetches
        /\ apiFetches' = Append(apiFetches, ApiFetch("timer", t.userId))
        /\ apiPage' = [apiPage EXCEPT !.error = NULL]
        /\ UNCHANGED timers
        /\ ApiFrame

\* fetchApiRequests after its await
ApiFetchSettles ==
    \E i \in DOMAIN apiFetches, outcome \in {"data", "error", "throw"} :
        /\ apiFetches' = [j \in 1..(Len(apiFetches) - 1) |->
                              IF j < i THEN apiFetches[j] ELSE apiFetches[j + 1]]
        /\ apiPage' = IF outcome = "data"
                      THEN [apiPage EXCEPT !.requests = 1, !.loading = FALSE]
                      ELSE [apiPage EXCEPT !.error = "Failed to fetch API requests",
                                           !.loading = FALSE]
        /\ UNCHANGED timers
        /\ ApiFrame

NextApiRequestsPage ==
    \/ MountApiRequestsPage
    \/ ToggleAutoRefresh
    \/ ChangeUserFilter
    \/ ManualRefresh
    \/ TimerFires
    \/ ApiFetchSettles

(***************************************************************************)
(* Dashboard: the customers table, its page size and its pagination        *)
(***************************************************************************)
\* fetchDashboardData calls running at a time
MaxRuns == 2

\* pages the customers endpoint reports at most
MaxPages == 2

\* the <option>s of the page-size select
PageSizes == {100, 50, 20, 10}

\* useState<PaginationInfo | null>(null)
NoPagination == [page |-> 0, limit |-> 0, totalPages |-> 0]

\* fetchDashboardData(pageNumber) as created by a render whose pageSize was limit, up to its
\* first await (the statistics request); newPageSize is the size the select was just
\* changed to, 0 when another control started the call
DashboardRun(pageNumber, limit, newPageSize) ==
    [stage |-> "stats", page |-> pageNumber, limit |-> limit, newPageSize |-> newPageSize]

\* mutation of PageSizeChanged: the call is made with the new size
PageSizeChanged_freshSize(d, newPageSize) ==
    [dash |-> [d EXCEPT !.pageSize = newPageSize, !.currentPage = 1],
     run |-> DashboardRun(1, newPageSize, newPageSize)]

\* the select's onChange: setPageSize(newPageSize); setCurrentPage(1);
\* await fetchDashboardData(1), the fetchDashboardData of the render the select is in
PageSizeChanged(d, newPageSize) ==
    [dash |-> [d EXCEPT !.pageSize = newPageSize, !.currentPage = 1],
     run |-> DashboardRun(1, d.pageSize, newPageSize)]

\* the dashboard as first rendered, its useEffect having called fetchDashboardData()
InitDashboard ==
    /\ dash = [pageSize |-> 100, currentPage |-> 1, pagination |-> NoPagination]
    /\ runs = <<DashboardRun(1, 100, 0)>>

DashFrame == UNCHANGED <<routeVars, processorVars, pageVars, pollVars, listVars, loginVars>>

Without(list, i) == [j \in 1..(Len(list) - 1) |-> IF j < i THEN list[j] ELSE list[j + 1]]

ChangePageSize ==
    \E newPageSize \in PageSizes :
        /\ newPageSize # dash.pageSize
        /\ Len(runs) < MaxRuns
        /\ dash' = PageSizeChanged(dash, newPageSize).dash
        /\ runs' = Append(runs, PageSizeChanged(dash, newPageSize).run)
        /\ DashFrame

\* the pagination buttons: onClick={() => fetchDashboardData(page)}
GoToPage ==
    \E p \in 1..MaxPages :
        /\ dash.pagination # NoPagination
        /\ p <= dash.pagination.totalPages
        /\ Len(runs) < MaxRuns
        /\ runs' = Append(runs, DashboardRun(p, dash.pageSize, 0))
        /\ UNCHANGED dash
        /\ DashFrame

\* the statistics request settles: the customers request is sent with
\* params {page, limit: pageSize}, or the catch logs the error
StatsSettle ==
    \E i \in DOMAIN runs, ok \in BOOLEAN :
        /\ runs[i].stage = "stats"
        /\ runs' = IF ok THEN [runs EXCEPT ![i].stage = "customers"] ELSE Without(runs, i)
        /\ UNCHANGED dash
        /\ DashFrame

\* the customers request settles: setPagination({page, limit: pageSize, ...});
\* setCurrentPage(page), or the catch logs the error
CustomersSettle ==
    \E i \in DOMAIN runs, ok \in BOOLEAN, totalPages \in 1..MaxPages :
        /\ runs[i].stage = "customers"
        /\ ~ok => totalPages = 1
        /\ runs' = Without(runs, i)
        /\ dash' = IF ok
                   THEN [dash EXCEPT !.pagination = [page |-> runs[i].page, limit |-> runs[i].limit,
                                                     totalPages |-> totalPages],
                                     !.currentPage = runs[i].page]
                   ELSE dash
        /\ DashFrame

NextDashboard ==
    \/ ChangePageSize
    \/ GoToPage
    \/ StatsSettle
    \/ CustomersSettle

(***************************************************************************)
(* Dashboard: getFilteredCustomers and the controls it reads               *)
(* Strings are sequences of UTF-16 code units, dates the fields of an ISO  *)
(* date.                                                                   *)
(***************************************************************************)
\* customers on a page
MaxCustomers == 3

\* String.prototype.toLowerCase, for the letters A-Z
toLowerCase(str) == [i \in DOMAIN str |-> IF str[i] \in 65..90 THEN str[i] + 32 ELSE str[i]]

\* String.prototype.includes
includes(str, part) ==
    \E k \in 0..Len(str) :
        /\ k + Len(part) <= Len(str)
        /\ \A i \in 1..Len(part) : str[k + i] = part[i]

\* a < b on strings: by code units, a proper prefix first
StringLess(a, b) ==
    \E k \in 0..Min(Len(a), Len(b)) :
        /\ \A i \in 1..k : a[i] = b[i]
        /\ \/ k = Len(a) /\ k < Len(b)
           \/ k < Len(a) /\ k < Len(b) /\ a[k + 1] < b[k + 1]

\* new Date(iso).getTime(), up to the unit: later dates give larger numbers
GetTime(iso) == (iso.year * 12 + iso.month) * 31 + iso.day

IsoDate(year, month, day) == [year |-> year, month |-> month, day |-> day]

\* lastActivity?: string
NoActivity == [present |-> FALSE, date |-> IsoDate(0, 0, 0)]

Activity(date) == [present |-> TRUE, date |-> date]

\* customers the API may list: "Al Xu" of "Ab", "bo Li" of "aB", "Cy Ng" of "b",
\* "Di Po" of "KAL"
CustomerPool ==
    {[userId |-> "u1", firstName |-> <<65, 108>>, lastName |-> <<88, 117>>,
      email |-> <<113, 64>>, organizationName |-> <<65, 98>>, planId |-> "api_pro",
      apiKeyCount |-> 1, hasApiUsage |-> TRUE,
      dateCreated |-> IsoDate(2024, 2, 1), lastActivity |-> Activity(IsoDate(2024, 3, 1))],
     [userId |-> "u2", firstName |-> <<98, 111>>, lastName |-> <<76, 105>>,
      email |-> <<97, 108, 64>>, organizationName |-> <<97, 66>>, planId |-> "api_starter",
      apiKeyCount |-> 1, hasApiUsage |-> FALSE,
      dateCreated |-> IsoDate(2024, 1, 1), lastActivity |-> NoActivity],
     [userId |-> "u3", firstName |-> <<67, 121>>, lastName |-> <<78, 103>>,
      email |-> <<99, 64>>, organizationName |-> <<98>>, planId |-> "api_pro",
      apiKeyCount |-> 0, hasApiUsage |-> FALSE,
      dateCreated |-> IsoDate(2024, 2, 1), lastActivity |-> NoActivity],
     [userId |-> "u4", firstName |-> <<68, 105>>, lastName |-> <<80, 111>>,
      email |-> <<100, 64>>, organizationName |-> <<75, 65, 76>>, planId |-> "api_starter",
      apiKeyCount |-> 2, hasApiUsage |-> TRUE,
      dateCreated |-> IsoDate(2024, 3, 1), lastActivity |-> Activity(IsoDate(2024, 1, 1))]}

\* pages of customers: distinct customers in any order
CustomerPages ==
    {list \in UNION {[1..n -> CustomerPool] : n \in 0..MaxCustomers} :
        \A i, j \in DOMAIN list : i # j => list[i] # list[j]}

\* search terms typed: none, "AL", "z"
SearchTerms == {<<>>, <<65, 76>>, <<122>>}

PlanFilters == {"all", "api_pro"}

ApiStatusFilters == {"all", "active", "noUsage", "noKeys"}

SortFields == {"dateCreated", "lastActivity", "organizationName"}

\* the useState defaults
InitialFilters ==
    [searchTerm |-> <<>>, showOnlyApiUsers |-> FALSE, showOnlyNonApiUsers |-> FALSE,
     planFilter |-> "all", apiStatusFilter |-> "all",
     sortField |-> "dateCreated", sortDirection |-> "desc"]

\* if (searchTerm) filtered = filtered.filter(...)
SearchFiltered(list, f) ==
    IF f.searchTerm # <<>>
    THEN SelectSeq(list, LAMBDA customer :
             \/ includes(toLowerCase(customer.firstName), toLowerCase(f.searchTerm))
             \/ includes(toLowerCase(customer.lastName), toLowerCase(f.searchTerm))
             \/ includes(toLowerCase(customer.email), toLowerCase(f.searchTerm))
             \/ includes(toLowerCase(customer.organizationName), toLowerCase(f.searchTerm)))
    ELSE list

\* mutation of UsageFiltered: 'Has API Usage' wins when both boxes are checked
UsageFiltered_apiWins(list, f) ==
    IF f.showOnlyApiUsers
    THEN SelectSeq(list, LAMBDA customer : customer.hasApiUsage)
    ELSE IF f.showOnlyNonApiUsers
    THEN SelectSeq(list, LAMBDA customer : ~customer.hasApiUsage)
    ELSE list

UsageFiltered(list, f) ==
    IF f.showOnlyApiUsers /\ ~f.showOnlyNonApiUsers
    THEN SelectSeq(list, LAMBDA customer : customer.hasApiUsage)
    ELSE IF f.showOnlyNonApiUsers /\ ~f.showOnlyApiUsers
    THEN SelectSeq(list, LAMBDA customer : ~customer.hasApiUsage)
    ELSE list

PlanFiltered(list, f) ==
    IF f.planFilter # "all"
    THEN SelectSeq(list, LAMBDA customer : customer.planId = f.planFilter)
    ELSE list

StatusFiltered(list, f) ==
    CASE f.apiStatusFilter = "active" ->
             SelectSeq(list, LAMBDA customer : customer.hasApiUsage)
      [] f.apiStatusFilter = "noUsage" ->
             SelectSeq(list, LAMBDA customer : ~customer.hasApiUsage /\ customer.apiKeyCount > 0)
      [] f.apiStatusFilter = "noKeys" ->
             SelectSeq(list, LAMBDA customer : customer.apiKeyCount = 0)
      [] OTHER -> list

\* aValue / bValue of the comparator; strings for organizationName, numbers otherwise
SortValue(customer, f) ==
    CASE f.sortField = "dateCreated" -> GetTime(customer.dateCreated)
      [] f.sortField = "lastActivity" ->
             IF customer.lastActivity.present THEN GetTime(customer.lastActivity.date) ELSE 0
      [] f.sortField = "organizationName" -> toLowerCase(customer.organizationName)

\* aValue > bValue
Greater(aValue, bValue, f) ==
    IF f.sortField = "organizationName" THEN StringLess(bValue, aValue) ELSE aValue > bValue

\* the comparator: never 0
Compare(a, b, f) ==
    IF f.sortDirection = "asc"
    THEN IF Greater(SortValue(a, f), SortValue(b, f), f) THEN 1 ELSE -1
    ELSE IF Greater(SortValue(b, f), SortValue(a, f), f) THEN 1 ELSE -1

\* where the pivot goes in a sorted run: binary search with the comparator
RECURSIVE InsertionPoint(_, _, _, _, _)
InsertionPoint(run, pivot, left, right, f) ==
    IF left >= right
    THEN left
    ELSE LET mid == left + ((right - left) \div 2)
         IN  IF Compare(pivot, run[mid], f) < 0
             THEN InsertionPoint(run, pivot, left, mid, f)
             ELSE InsertionPoint(run, pivot, mid + 1, right, f)

\* Array.prototype.sort(comparator) on a short array: binary insertion sort
RECURSIVE Sort(_, _, _)
Sort(run, rest, f) ==
    IF rest = <<>>
    THEN run
    ELSE LET at == InsertionPoint(run, Head(rest), 1, Len(run) + 1, f)
         IN  Sort(SubSeq(run, 1, at - 1) \o <<Head(rest)>> \o SubSeq(run, at, Len(run)),
                  Tail(rest), f)

\* none of the filter branches runs, so filtered is still the array passed in
NothingFiltered(f) ==
    /\ f.searchTerm = <<>>
    /\ ~(f.showOnlyApiUsers /\ ~f.showOnlyNonApiUsers)
    /\ ~(f.showOnlyNonApiUsers /\ ~f.showOnlyApiUsers)
    /\ f.planFilter = "all"
    /\ f.apiStatusFilter = "all"

\* getFilteredCustomers(allCustomers) with the filter state f of the render
getFilteredCustomers(allCustomers, f) ==
    Sort(<<>>, StatusFiltered(PlanFiltered(UsageFiltered(SearchFiltered(allCustomers, f), f), f), f), f)

\* allCustomers after the call: sort() works in place on the array it is given
SortedInPlace(allCustomers, f) ==
    IF NothingFiltered(f) THEN getFilteredCustomers(allCustomers, f) ELSE allCustomers

\* the table with nothing loaded
InitCustomerList ==
    /\ customers = <<>>
    /\ filters = InitialFilters
    /\ tableRows = <<>>

ListFrame == UNCHANGED <<routeVars, processorVars, pageVars, pollVars, dashVars, loginVars>>

\* a render with the customers list and the filter state f: the 'Filtered:' count and
\* the table rows each call getFilteredCustomers(customers)
Render(list, f) ==
    LET counted == SortedInPlace(list, f)
        listed == getFilteredCustomers(counted, f)
    IN  /\ filters' = f
        /\ customers' = IF NothingFiltered(f) THEN listed ELSE counted
        /\ tableRows' = listed
        /\ ListFrame

\* setCustomers(customersWithUsage), for the first page that has customers
CustomersLoaded == \E list \in CustomerPages : customers = <<>> /\ Render(list, filters)

SetSearchTerm ==
    \E term \in SearchTerms : Render(customers, [filters EXCEPT !.searchTerm = term])

SetShowOnlyApiUsers ==
    \E checked \in BOOLEAN : Render(customers, [filters EXCEPT !.showOnlyApiUsers = checked])

SetShowOnlyNonApiUsers ==
    \E checked \in BOOLEAN : Render(customers, [filters EXCEPT !.showOnlyNonApiUsers = checked])

SetPlanFilter ==
    \E plan \in PlanFilters : Render(customers, [filters EXCEPT !.planFilter = plan])

SetApiStatusFilter ==
    \E status \in ApiStatusFilters : Render(customers, [filters EXCEPT !.apiStatusFilter = status])

\* the sort select
SetSortField ==
    \E field \in SortFields : Render(customers, [filters EXCEPT !.sortField = field])

\* the direction button
ToggleSortDirection ==
    Render(customers, [filters EXCEPT !.sortDirection = IF @ = "asc" THEN "desc" ELSE "asc"])

\* a column header: its field, and the direction toggled
ClickColumnHeader ==
    \E field \in SortFields :
        Render(customers, [filters EXCEPT !.sortField = field,
                                          !.sortDirection = IF @ = "asc" THEN "desc" ELSE "asc"])

\* the Reset Filters button, shown while a filter is set
ResetFilters ==
    /\ \/ filters.showOnlyApiUsers
       \/ filters.showOnlyNonApiUsers
       \/ filters.searchTerm # <<>>
       \/ filters.planFilter # "all"
       \/ filters.apiStatusFilter # "all"
    /\ Render(customers, [filters EXCEPT !.showOnlyApiUsers = FALSE,
                                         !.showOnlyNonApiUsers = FALSE,
                                         !.searchTerm = <<>>,
                                         !.planFilter = "all",
                                         !.apiStatusFilter = "all"])

NextCustomerList ==
    \/ CustomersLoaded
    \/ SetSearchTerm
    \/ SetShowOnlyApiUsers
    \/ SetShowOnlyNonApiUsers
    \/ SetPlanFilter
    \/ SetApiStatusFilter
    \/ SetSortField
    \/ ToggleSortDirection
    \/ ClickColumnHeader
    \/ ResetFilters

(***************************************************************************)
(* app/page.tsx: the dashboard behind the password form                    *)
(***************************************************************************)
\* times the login form is submitted in a run
MaxSubmits == 2

\* API calls awaiting their response at a time
MaxAdminCalls == 3

\* what is typed into the password input
TypedPasswords == {"", "admin123", "s3cret", "wrong"}

\* the form before anything is typed
InitLogin ==
    /\ login = [isAuthenticated |-> FALSE, password |-> "", error |-> "", loading |-> FALSE,
                submits |-> 0]
    /\ adminCalls = <<>>

\* if (!isAuthenticated) return <the login form>
LoginFormShown(l) == ~l.isAuthenticated

\* an API call up to its await, with the isAuthenticated its handler leaves behind;
\* finishesSync: syncCustomers awaits it and then clears loading
AdminCall(kind, authenticated, finishesSync) ==
    [kind |-> kind, isAuthenticated |-> authenticated, finishesSync |-> finishesSync]

\* fetchDashboardData(page): the stats and the customers GET, sent together
DashboardCall(authenticated, finishesSync) ==
    AdminCall("fetchDashboardData", authenticated, finishesSync)

\* handleLogin, to its finally: the password compared with
\* process.env.NEXT_PUBLIC_ADMIN_PASSWORD || 'admin123'
handleLogin(l, env) ==
    IF l.password = ExpectedPassword(env)
    THEN [login |-> [l EXCEPT !.isAuthenticated = TRUE, !.error = "", !.loading = FALSE,
                              !.submits = @ + 1],
          calls |-> <<DashboardCall(TRUE, FALSE)>>]
    ELSE [login |-> [l EXCEPT !.error = "Invalid password", !.loading = FALSE,
                              !.submits = @ + 1],
          calls |-> <<>>]

\* useEffect(..., [isAuthenticated]): if (isAuthenticated) fetchDashboardData()
AuthenticatedEffect(before, after) ==
    IF after.isAuthenticated /\ ~before.isAuthenticated
    THEN <<DashboardCall(TRUE, FALSE)>>
    ELSE <<>>

LoginFrame == UNCHANGED <<routeVars, processorVars, pageVars, pollVars, dashVars, listVars>>

\* the password input's onChange
TypePassword ==
    \E value \in TypedPasswords :
        /\ LoginFormShown(login)
        /\ login' = [login EXCEPT !.password = value]
        /\ UNCHANGED adminCalls
        /\ LoginFrame

\* the form's onSubmit (the input is required, the button disabled while loading),
\* then the effect of the render that follows
SubmitLogin ==
    /\ LoginFormShown(login)
    /\ ~login.loading
    /\ login.password # ""
    /\ login.submits < MaxSubmits
    /\ Len(adminCalls) + 2 <= MaxAdminCalls
    /\ login' = handleLogin(login, envAdminPassword).login
    /\ adminCalls' = adminCalls \o handleLogin(login, envAdminPassword).calls
                                \o AuthenticatedEffect(login, login')
    /\ LoginFrame

\* the Sign out buttons: setIsAuthenticated(false)
SignOut ==
    /\ ~LoginFormShown(login)
    /\ login' = [login EXCEPT !.isAuthenticated = FALSE]
    /\ UNCHANGED adminCalls
    /\ LoginFrame

\* syncCustomers up to its first await
SyncCustomers ==
    /\ ~LoginFormShown(login)
    /\ ~login.loading
    /\ Len(adminCalls) < MaxAdminCalls
    /\ login' = [login EXCEPT !.loading = TRUE]
    /\ adminCalls' = Append(adminCalls, AdminCall("syncCustomers", login.isAuthenticated, FALSE))
    /\ LoginFrame

\* handleSearch and the pagination buttons: fetchDashboardData(page)
FetchPage ==
    /\ ~LoginFormShown(login)
    /\ Len(adminCalls) < MaxAdminCalls
    /\ adminCalls' = Append(adminCalls, DashboardCall(login.isAuthenticated, FALSE))
    /\ UNCHANGED login
    /\ LoginFrame

\* handleCustomerClick and handlePeriodChange: fetchCustomerUsage
FetchUsage ==
    /\ ~LoginFormShown(login)
    /\ Len(adminCalls) < MaxAdminCalls
    /\ adminCalls' = Append(adminCalls, AdminCall("fetchCustomerUsage", login.isAuthenticated, FALSE))
    /\ UNCHANGED login
    /\ LoginFrame

\* the POST of syncCustomers settles: await fetchDashboardData(currentPage), or the
\* catch and the finally
SyncSettles ==
    \E i \in DOMAIN adminCalls, ok \in BOOLEAN :
        /\ adminCalls[i].kind = "syncCustomers"
        /\ IF ok
           THEN /\ adminCalls' = [adminCalls EXCEPT ![i] = DashboardCall(login.isAuthenticated, TRUE)]
                /\ UNCHANGED login
           ELSE /\ adminCalls' = Without(adminCalls, i)
                /\ login' = [login EXCEPT !.error = "Failed to sync customers", !.loading = FALSE]
        /\ LoginFrame

\* fetchDashboardData after its await, and the finally of a syncCustomers awaiting it
DashboardCallSettles ==
    \E i \in DOMAIN adminCalls, ok \in BOOLEAN :
        /\ adminCalls[i].kind = "fetchDashboardData"
        /\ adminCalls' = Without(adminCalls, i)
        /\ login' = [login EXCEPT
                         !.error = IF ok THEN @ ELSE "Failed to fetch dashboard data",
                         !.loading = IF adminCalls[i].finishesSync THEN FALSE ELSE @]
        /\ LoginFrame

\* fetchCustomerUsage after its await
UsageCallSettles ==
    \E i \in DOMAIN adminCalls :
        /\ adminCalls[i].kind = "fetchCustomerUsage"
        /\ adminCalls' = Without(adminCalls, i)
        /\ UNCHANGED login
        /\ LoginFrame

NextLogin ==
    \/ TypePassword
    \/ SubmitLogin
    \/ SignOut
    \/ SyncCustomers
    \/ FetchPage
    \/ FetchUsage
    \/ SyncSettles
    \/ DashboardCallSettles
    \/ UsageCallSettles

(***************************************************************************)
(* Specifications                                                          *)
(***************************************************************************)
\* the routes, with no dialog open in any browser
\* the pages as first rendered and with nobody using them
InitClient ==
    /\ InitAnomaliesPage
    /\ InitApiRequestsPage
    /\ apiPage.userIdFilter = ""
    /\ InitDashboard
    /\ InitCustomerList
    /\ InitLogin

Init == InitRoutes /\ Rendered(CHOOSE a \in Anomalies : a.hasSubmission) /\ InitClient

Next == NextRoutes

Spec == Init /\ [][Next]_vars

\* one AnomalyProcessor dialog, with the server at rest
InitDialog == InitProcessor /\ InitRoutes /\ envAdminPassword = NULL /\ InitClient

SpecProcessor == InitDialog /\ [][NextProcessor]_vars

\* the anomalies page with its dialog, the server at rest
InitPage ==
    /\ InitClient
    /\ InitRoutes
    /\ envAdminPassword = NULL
    /\ Rendered(CHOOSE a \in Anomalies : a.hasSubmission)

SpecAnomaliesPage == InitPage /\ [][NextAnomaliesPage]_vars

\* the server and the dialog at rest
InitRest ==
    /\ InitRoutes
    /\ envAdminPassword = NULL
    /\ Rendered(CHOOSE a \in Anomalies : a.hasSubmission)

\* the API requests page
InitPolling ==
    /\ InitRest
    /\ InitAnomaliesPage
    /\ InitApiRequestsPage
    /\ InitDashboard
    /\ InitCustomerList
    /\ InitLogin

SpecApiRequestsPage == InitPolling /\ [][NextApiRequestsPage]_vars

\* the dashboard
InitDash == InitRest /\ InitClient

SpecDashboard == InitDash /\ [][NextDashboard]_vars

\* the dashboard behind the password form, with either deployment
InitGate == InitRoutes /\ Rendered(CHOOSE a \in Anomalies : a.hasSubmission) /\ InitClient

SpecLogin == InitGate /\ [][NextLogin]_vars

\* the customers table of the dashboard
SpecCustomerList == InitDash /\ [][NextCustomerList]_vars


(***************************************************************************)
(* Properties of the routes (checked under Spec)                           *)
(***************************************************************************)
DestructiveRoutes ==
    {"/api/anomalies/clear", "/api/transactions/clear", "/api/transaction-items/clear",
     "/api/submissions/clear", "/api/integrations/clear", "/api/vectordb/clear",
     "/api/clear-database"}

ProxyRoutes == {"/api/api-requests", "/api/transactions/[userId]", "/api/vectordb/clear"}

\* the request in hand has been answered
Responded == resp # NoResponse

\* the password the deployment expects
DeployedPassword == IF envAdminPassword \in {NULL, ""} THEN "admin123" ELSE envAdminPassword

\* the request in hand carries no admin-password header, or a wrong one
BadPassword == req.adminPassword = NULL \/ req.adminPassword # DeployedPassword

\* some table lost rows in this step
RowsDeleted == \E t \in Tables : db'[t] # db[t] /\ db'[t] \subseteq db[t]

C1_RejectedUntouched ==
    (req.route \in DestructiveRoutes /\ BadPassword)
        => /\ resp = [status |-> 401, body |-> [success |-> FALSE, error |-> "Unauthorized"]]
           /\ calls = <<>>

C1_DeleteOnlyAuthorized ==
    RowsDeleted => /\ req'.route \in DestructiveRoutes
                   /\ req'.adminPassword = DeployedPassword

\* C1: a destructive route answers a request whose admin-password header is absent or
\* wrong with 401 {success:false, error:'Unauthorized'} and makes no SQL or HTTP call
\* for it; rows are deleted only in a step taken for a request whose header equals the
\* expected password.
C1_PasswordGate == []C1_RejectedUntouched /\ [][C1_DeleteOnlyAuthorized]_vars

C1_Witness ==
    /\ req.route = "/api/clear-database"
    /\ req.adminPassword = "wrong"
    /\ resp.status = 401
    /\ \E t \in Tables : db[t] = {}

IsFailure == Responded /\ resp.body.success = FALSE

\* C2 as stated: every failure response carries both an error and a details field.
C2_EveryFailureHasDetails ==
    IsFailure => {"error", "details"} \subseteq DOMAIN resp.body

GateErrors == {"Unauthorized", "userId is required"}

\* C2 as amended: a failure response has the shape {success:false, error, details},
\* except the gate rejections ('Unauthorized', 'userId is required'), which carry
\* {success:false, error} only, and the partial-clear response of
\* POST /api/clear-database, which carries {success:false, message, results, summary}.
C2_FailureShapes ==
    IsFailure =>
        IF "results" \in DOMAIN resp.body
        THEN /\ req.route = "/api/clear-database"
             /\ DOMAIN resp.body = {"success", "message", "results", "summary"}
        ELSE IF "details" \in DOMAIN resp.body
        THEN /\ DOMAIN resp.body = {"success", "error", "details"}
             /\ resp.body.error \notin GateErrors
        ELSE /\ DOMAIN resp.body = {"success", "error"}
             /\ resp.body.error \in GateErrors
             /\ resp.status \in {400, 401}
             /\ calls = <<>>

C2_Witness ==
    /\ IsFailure
    /\ resp.status = 401
    /\ "details" \in DOMAIN resp.body
    /\ req.route = "/api/transactions/[userId]"

\* C3: a proxy route (api-requests, transactions/[userId], vectordb/clear) answers
\* with the upstream status s and success=false when the upstream call answered
\* non-OK with s, with 500 and success=false when the upstream call failed (the fetch
\* or the reading of its body rejected), and with success=true only when the upstream
\* answered OK.
C3_UpstreamMirrored ==
    (Responded /\ req.route \in ProxyRoutes) =>
        /\ calls # <<>> =>
            LET up == calls[1].outcome
                answered == up.kind = "response" /\ up.readable
            IN  /\ Len(calls) = 1
                /\ (answered /\ ~(up.status \in 200..299))
                       => (resp.status = up.status /\ resp.body.success = FALSE)
                /\ ~answered => (resp.status = 500 /\ resp.body.success = FALSE)
                /\ (answered /\ up.status \in 200..299) => resp.body.success = TRUE
        /\ resp.body.success = TRUE =>
            /\ calls # <<>>
            /\ calls[1].outcome.kind = "response"
            /\ calls[1].outcome.status \in 200..299

C3_Witness ==
    /\ Responded
    /\ req.route = "/api/api-requests"
    /\ calls # <<>>
    /\ calls[1].outcome.status = 503
    /\ resp.status = 503

\* C4 as stated: a handler makes one external call for a request and never more
\* than one (the bound alone is what a run refutes).
C4_OneExternalCall == Len(calls) <= 1

\* the handler turned the request away at its gate (401, 400)
GateRejected == resp.body.success = FALSE /\ DOMAIN resp.body = {"success", "error"}

\* C4 as amended: a handler other than POST /api/clear-database makes at most one
\* external call for a request: none when it turns the request away (401, 400), none
\* in POST /api/impersonate, which signs its token locally, and otherwise one; an
\* authorized POST /api/clear-database makes six HTTP calls, one per target.
C4_CallsPerRequest ==
    /\ req.route # "/api/clear-database" => Len(calls) <= 1
    /\ Len(calls) <= 6
    /\ Responded =>
        Len(calls) = IF GateRejected \/ req.route = "/api/impersonate" THEN 0
                     ELSE IF req.route = "/api/clear-database" THEN 6
                     ELSE 1

C4_Witness ==
    /\ Responded
    /\ req.route = "/api/clear-database"
    /\ Len(calls) = 6
    /\ \A i \in 1..6 : calls[i].kind = "http"

SixTargets ==
    {"vectordb", "transactions", "transactionItems", "submissions", "anomalies", "integrations"}

\* POST /api/clear-database answered an authorized request
ClearDatabaseAnswered ==
    Responded /\ req.route = "/api/clear-database" /\ "summary" \in DOMAIN resp.body

\* C5: the response of an authorized POST /api/clear-database has summary.total = 6,
\* summary.cleared = the number of targets whose result has success=true,
\* summary.cleared + summary.errors = summary.total, and success=true exactly when all
\* six targets succeeded.
C5_SummaryCounts ==
    ClearDatabaseAnswered =>
        LET body == resp.body
            cleared == {t \in SixTargets : body.results[t].success}
        IN  /\ DOMAIN body.results = SixTargets
            /\ body.summary.total = 6
            /\ body.summary.cleared = Cardinality(cleared)
            /\ body.summary.cleared + body.summary.errors = body.summary.total
            /\ body.success <=> (cleared = SixTargets)

C5_Witness ==
    /\ ClearDatabaseAnswered
    /\ resp.body.summary.cleared = 2
    /\ resp.body.summary.errors = 4
    /\ resp.body.success = FALSE

SixUrls ==
    <<"/api/vectordb/clear", "/api/transactions/clear", "/api/transaction-items/clear",
      "/api/submissions/clear", "/api/anomalies/clear", "/api/integrations/clear">>

\* C6: an authorized POST /api/clear-database attempts the six sub-clears once each,
\* in the order vectordb, transactions, transactionItems, submissions, anomalies,
\* integrations, whatever the earlier attempts returned or threw, and responds only
\* after the sixth.
C6_SixAttemptsInOrder ==
    (req.route = "/api/clear-database" /\ ~BadPassword) =>
        /\ Len(calls) <= 6
        /\ \A i \in 1..Len(calls) : calls[i].method = "DELETE" /\ calls[i].target = SixUrls[i]
        /\ Responded <=> (Len(calls) = 6 /\ cd.pc = "idle")
        /\ cd.pc = "running" => Len(calls) = cd.next - 1

C6_Witness ==
    /\ ClearDatabaseAnswered
    /\ Len(calls) = 6
    /\ calls[1].outcome.kind = "response" /\ calls[1].outcome.status = 503
    /\ calls[2].outcome.kind = "throw"
    /\ resp.body.results["vectordb"].success = FALSE
    /\ resp.body.results["transactions"].success = FALSE
    /\ resp.body.results["integrations"].success = TRUE


(***************************************************************************)
(* Properties of AnomalyProcessor (checked under SpecProcessor)            *)
(***************************************************************************)
FourActions == {"UPDATE_SUBMISSION", "UPDATE_NAICS_CODE", "UPDATE_PRICE", "MARK_RESOLVED"}

\* the fields a resolve body carries besides action and notes
ActionFields(action) ==
    CASE action = "UPDATE_SUBMISSION" -> {"submissionData"}
      [] action = "UPDATE_NAICS_CODE" -> {"naicsCode"}
      [] action = "UPDATE_PRICE" -> {"price", "currency"}
      [] action = "MARK_RESOLVED" -> {}

\* this step is a click on Resolve
ResolveClicked == history'.resolveClicks = history.resolveClicks + 1

C7_BodyShape ==
    \A i \in DOMAIN inflight :
        LET body == inflight[i].data
        IN  /\ body.action \in FourActions
            /\ DOMAIN body = {"action", "notes"} \cup ActionFields(body.action)

C7_BodyValues ==
    ResolveClicked =>
        /\ Len(inflight') = Len(inflight) + 1
        /\ LET posted == inflight'[Len(inflight')]
               body == posted.data
           IN  /\ posted.method = "POST"
               /\ posted.url = "/admin/anomalies/" \o anomaly.id \o "/resolve"
               /\ body.action = selectedAction
               /\ body.notes = resolutionNotes
               /\ selectedAction = "UPDATE_SUBMISSION" => body.submissionData = submissionData
               /\ selectedAction = "UPDATE_NAICS_CODE" => body.naicsCode = submissionData.naicsCode
               /\ selectedAction = "UPDATE_PRICE" =>
                      (body.price = submissionData.price /\ body.currency = submissionData.currency)

\* C7: the body posted to /admin/anomalies/{id}/resolve on a click on Resolve holds
\* action (the selected action), notes (the notes text) and exactly the fields of the
\* action: submissionData (the whole edited record) for UPDATE_SUBMISSION, naicsCode
\* for UPDATE_NAICS_CODE, price and currency for UPDATE_PRICE, none for MARK_RESOLVED.
C7_ResolvePayload == []C7_BodyShape /\ [][C7_BodyValues]_vars

C7_Witness ==
    /\ Len(inflight) = 1
    /\ inflight[1].data.action = "UPDATE_PRICE"
    /\ inflight[1].data.price = 149
    /\ inflight[1].data.currency = "EUR"
    /\ inflight[1].url = "/admin/anomalies/anomaly-1/resolve"

C8_FormsFollowAction ==
    LET shown == VisibleForms(selectedAction)
    IN  /\ selectedAction \in FourActions
        /\ "productDetails" \in shown <=> selectedAction = "UPDATE_SUBMISSION"
        /\ "price" \in shown <=> selectedAction = "UPDATE_PRICE"
        /\ "naics" \in shown <=> selectedAction = "UPDATE_NAICS_CODE"
        /\ selectedAction = "MARK_RESOLVED" => shown = {}
        /\ Cardinality(shown) <= 1

\* C8: the selected action is always one of the four resolution actions and is
\* MARK_RESOLVED at first; the product-details form shows exactly for
\* UPDATE_SUBMISSION, the price form exactly for UPDATE_PRICE, the NAICS form exactly
\* for UPDATE_NAICS_CODE, none for MARK_RESOLVED: at most one form at a time.
C8_ActionAndForms == selectedAction = "MARK_RESOLVED" /\ []C8_FormsFollowAction

C8_Witness ==
    /\ selectedAction = "UPDATE_SUBMISSION"
    /\ VisibleForms(selectedAction) = {"productDetails"}
    /\ history.edits = 2

\* the calls of onResolved so far
ResolvedCalls == {i \in DOMAIN callbacks : callbacks[i].name = "onResolved"}

C9_ResolvedOnlyOnSuccess == Cardinality(ResolvedCalls) = history.successes

C9_ResolvedThenClosed ==
    history'.successes = history.successes + 1 =>
        callbacks' = callbacks \o <<[name |-> "onResolved", arg |-> anomaly.id],
                                    [name |-> "onClose", arg |-> NULL]>>

\* C9: when the resolve request returns success=true the dialog calls
\* onResolved(anomaly.id) and then onClose, once each and in that order; onResolved is
\* called for nothing but such a response.
C9_SuccessCallbacks == []C9_ResolvedOnlyOnSuccess /\ [][C9_ResolvedThenClosed]_vars

C9_Witness ==
    /\ history.successes = 1
    /\ history.failures = 1
    /\ callbacks = <<[name |-> "onResolved", arg |-> "anomaly-2"], [name |-> "onClose", arg |-> NULL]>>

\* text holds part as a substring
Contains(text, part) ==
    \E i \in 1..(Len(text) - Len(part) + 1) : SubSeq(text, i, i + Len(part) - 1) = part

C10_FailureStep ==
    history'.failures = history.failures + 1 =>
        /\ Len(alerts') = Len(alerts) + 1
        /\ SubSeq(alerts', 1, Len(alerts)) = alerts
        /\ Contains(alerts'[Len(alerts')], "Failed to resolve anomaly")
        /\ callbacks' = callbacks
        /\ UNCHANGED <<selectedAction, resolutionNotes, submissionData>>
        /\ isProcessing' = FALSE

\* C10: when the resolve request is rejected or answers with success not true, the
\* dialog shows an alert containing 'Failed to resolve anomaly', calls neither
\* onResolved nor onClose, keeps the selected action, the notes and the form data, and
\* sets isProcessing back to false.
C10_FailureAlert == [][C10_FailureStep]_vars

C10_Witness ==
    /\ history.failures = 1
    /\ alerts = <<"Failed to resolve anomaly: Anomaly not found">>
    /\ callbacks = <<>>
    /\ selectedAction = "UPDATE_NAICS_CODE"
    /\ ~isProcessing
    /\ mounted

\* this step is a resolve request settling
ResolveSettled == Len(inflight') = Len(inflight) - 1

C11_WhilePending ==
    /\ Len(inflight) <= 1
    /\ isProcessing <=> inflight # <<>>
    /\ isProcessing =>
        /\ ResolveButtonText(isProcessing) = "Processing..."
        /\ ButtonDisabled(isProcessing)
        /\ ~ENABLED ClickResolve
        /\ ~ENABLED ClickCancel
    /\ ~isProcessing => ResolveButtonText(isProcessing) = "Resolve Anomaly"

C11_SettledStep == ResolveSettled => (isProcessing /\ ~isProcessing')

\* C11: from the click on Resolve until the request settles isProcessing is true, the
\* button reads 'Processing...' and neither Resolve nor Cancel can be clicked, so a
\* dialog has at most one resolve request in flight; when the request settles, with
\* success or failure, isProcessing is false again.
C11_OneRequestInFlight == []C11_WhilePending /\ [][C11_SettledStep]_vars

C11_Witness ==
    /\ isProcessing
    /\ Len(inflight) = 1
    /\ history.failures = 1
    /\ history.resolveClicks = 2
    /\ mounted

(***************************************************************************)
(* Properties of the impersonation and transactions routes (under Spec)    *)
(***************************************************************************)
ImpersonateAnswered == Responded /\ req.route = "/api/impersonate"

\* the response carries a link or a token
LinkIssued == {"magicLink", "token"} \cap DOMAIN resp.body # {}

\* the request's body is JSON with a non-empty userId
HasUserId == req.body.parses /\ req.body.hasUserId /\ req.body.userId # ""

\* C13 as stated: a request without the expected header or without a userId is
\* answered 401 or 400.
C13_RejectedAs401Or400 ==
    (ImpersonateAnswered /\ ~(req.authorization = ExpectedToken /\ HasUserId))
        => resp.status \in {401, 400}

\* C13: POST /api/impersonate returns a link and a token only for a request with the
\* expected Authorization header and a non-empty userId; any other header is answered
\* 401 whatever the body (the header is checked before the body is read), a JSON body
\* without userId 400, a body that cannot be read 500, all with success=false and no
\* token.
C13_ImpersonateGate ==
    ImpersonateAnswered =>
        /\ (LinkIssued \/ resp.body.success = TRUE \/ resp.status = 200)
               => (req.authorization = ExpectedToken /\ HasUserId)
        /\ req.authorization # ExpectedToken
               => (resp.status = 401 /\ resp.body = [success |-> FALSE, error |-> "Unauthorized"])
        /\ (req.authorization = ExpectedToken /\ req.body.parses /\ ~HasUserId)
               => (resp.status = 400 /\ resp.body.success = FALSE /\ ~LinkIssued)
        /\ (req.authorization = ExpectedToken /\ ~req.body.parses)
               => (resp.status = 500 /\ resp.body.success = FALSE /\ ~LinkIssued)
        /\ (req.authorization = ExpectedToken /\ HasUserId)
               => (resp.status = 200 /\ resp.body.success = TRUE /\ LinkIssued)

C13_Witness ==
    /\ ImpersonateAnswered
    /\ req.authorization = "Bearer wrong"
    /\ req.body.userId = "u1"
    /\ resp.status = 401

\* C14: a magic link expires 5 minutes after it is issued (the payload's expiresAt and
\* the JWT's exp are both 300 seconds after iat), the expiresAt of the response is the
\* expiresAt of the token's payload, and the link and the payload name the userId of
\* the request, with readOnly true.
C14_MagicLinkShortLived ==
    (ImpersonateAnswered /\ LinkIssued) =>
        LET token == resp.body.token
        IN  /\ token.payload.expiresAt \div 1000 = token.payload.iat + 300
            /\ token.payload.expiresAt - token.payload.iat * 1000 < 301000
            /\ token.exp = token.payload.iat + 300
            /\ resp.body.expiresAt = token.payload.expiresAt
            /\ token.payload.userId = req.body.userId
            /\ token.payload.readOnly = TRUE
            /\ resp.body.magicLink.impersonate = req.body.userId
            /\ resp.body.magicLink.token = token

C14_Witness ==
    /\ ImpersonateAnswered
    /\ LinkIssued
    /\ resp.body.expiresAt = 361500
    /\ resp.body.token.exp = 361

TransactionsAnswered ==
    Responded /\ req.route = "/api/transactions/[userId]" /\ resp.body.success = TRUE

\* C16: a successful GET /api/transactions/[userId] returns the first min(7, n) of the
\* n upstream recentTransactions, in upstream order (none when upstream lists none),
\* each with itemCount 0 when upstream gives none, and totalCount is the upstream
\* transaction count, or 0 when upstream gives none.
C16_FirstSeven ==
    TransactionsAnswered =>
        LET data == calls[1].outcome.data
            list == IF data.hasRecent THEN data.recentTransactions ELSE <<>>
            shown == resp.body.transactions
        IN  /\ Len(shown) <= 7
            /\ Len(shown) = Min(7, Len(list))
            /\ \A i \in 1..Len(shown) :
                   /\ shown[i].id = list[i].id
                   /\ shown[i].dateCreated = list[i].dateCreated
                   /\ shown[i].status = list[i].statusFootprint
                   /\ shown[i].stripeUsageId = list[i].stripeUsageId
                   /\ shown[i].itemCount = IF list[i].hasItemCount THEN list[i].itemCount ELSE 0
            /\ resp.body.totalCount = IF data.hasCounts THEN data.transactions ELSE 0

C16_Witness ==
    /\ TransactionsAnswered
    /\ Len(calls[1].outcome.data.recentTransactions) = 8
    /\ Len(resp.body.transactions) = 7
    /\ resp.body.transactions[7].id = 7
    /\ resp.body.totalCount = 13

(***************************************************************************)
(* Properties of the anomalies page (checked under SpecAnomaliesPage)      *)
(***************************************************************************)
\* C12: every request the admin interface sends to resolve an anomaly is a PATCH to
\* /admin/anomalies/:id/resolve, from the 'Mark as Resolved' button of the details
\* view and from the 'Resolve Anomaly' button of the AnomalyProcessor dialog alike.
C12_ResolveIsPatch ==
    \A i \in DOMAIN sent :
        /\ sent[i].method = "PATCH"
        /\ \E a \in Anomalies : sent[i].url = "/admin/anomalies/" \o a.id \o "/resolve"

\* this step delivers onResolved(id) of the request r to handleAnomalyResolved
ResolvedNow(r) ==
    /\ r.kind = "handleResolve"
    /\ \A q \in pending' : q.n # r.n
    /\ delivered' # <<>>
    /\ delivered'[1] = [name |-> "onResolved", arg |-> r.id]

C19_ResolvedStep ==
    \A r \in pending :
        ResolvedNow(r) =>
            /\ page'.anomalies = SelectSeq(page.anomalies, LAMBDA a : a.id # r.id)
            /\ page'.anomalyStats.totalAnomalies = page.anomalyStats.totalAnomalies
            /\ IF page.anomalyStats.loaded
               THEN /\ page'.anomalyStats.unresolvedAnomalies
                          = Max(0, page.anomalyStats.unresolvedAnomalies - 1)
                    /\ page'.anomalyStats.resolvedAnomalies
                          = page.anomalyStats.resolvedAnomalies + 1
               ELSE page'.anomalyStats = page.anomalyStats

\* C19: handleAnomalyResolved(id) removes the anomaly with that id from the list and
\* keeps the others in order; when the statistics are loaded it sets
\* unresolvedAnomalies to max(0, unresolvedAnomalies - 1), resolvedAnomalies to
\* resolvedAnomalies + 1 and leaves totalAnomalies as it is, so unresolvedAnomalies is
\* never negative.
C19_HandleAnomalyResolved ==
    [](page.anomalyStats.unresolvedAnomalies >= 0) /\ [][C19_ResolvedStep]_vars

(***************************************************************************)
(* Properties of the API requests page (checked under SpecApiRequestsPage) *)
(***************************************************************************)
C15_Timers ==
    /\ apiPage.refreshInterval = 5000
    /\ \A t \in timers : t.period = 5000
    /\ apiPage.mounted =>
           IF apiPage.autoRefresh
           THEN /\ Cardinality(timers) = 1
                /\ \A t \in timers : t.id = apiPage.interval /\ t.userId = apiPage.userIdFilter
           ELSE timers = {}

\* this step calls fetchApiRequests
FetchIssued == Len(apiFetches') = Len(apiFetches) + 1

C15_PausedStep ==
    (apiPage.mounted /\ ~apiPage.autoRefresh /\ FetchIssued)
        => \/ apiFetches'[Len(apiFetches')].cause = "manual"
           \/ /\ apiFetches'[Len(apiFetches')].cause = "filter"
              /\ apiPage'.userIdFilter # apiPage.userIdFilter

\* C15: the polling period of the API requests page is 5 seconds and never changes;
\* while auto-refresh is on exactly one timer is active, the one of the current
\* filter (the previous one is cleared when autoRefresh or the filter changes); while
\* it is paused no timer is active and a fetch is issued only by the manual refresh
\* button or by a change of the filter.
C15_OnePollingTimer == []C15_Timers /\ [][C15_PausedStep]_vars

C15_Witness ==
    /\ apiPage.mounted
    /\ ~apiPage.autoRefresh
    /\ apiPage.userIdFilter = "u1"
    /\ timers = {}
    /\ Len(apiFetches) = 2
    /\ apiFetches[1].cause = "filter"
    /\ apiFetches[2].cause = "manual"

(***************************************************************************)
(* Cancel and X of AnomalyProcessor (checked under SpecProcessor)          *)
(***************************************************************************)
\* this step is a click on Cancel or on X
CloseClicked == history'.closeClicks = history.closeClicks + 1

C17_CloseStep ==
    CloseClicked =>
        /\ callbacks' = Append(callbacks, OnCloseCall)
        /\ inflight' = inflight
        /\ UNCHANGED <<anomaly, isProcessing, selectedAction, resolutionNotes,
                       submissionData, alerts>>
        /\ history'.resolveClicks = history.resolveClicks

\* C17: a click on the Cancel button or on the X button of AnomalyProcessor calls
\* onClose once and does nothing else: no resolve request is sent, onResolved is not
\* called, and the dialog's own state is as before.
C17_CloseOnly == [][C17_CloseStep]_vars

C17_Witness ==
    /\ history.closeClicks = 1
    /\ history.resolveClicks = 0
    /\ callbacks = <<OnCloseCall>>
    /\ inflight = <<>>

(***************************************************************************)
(* The table-clear routes and the tables (checked under Spec)              *)
(***************************************************************************)
\* the table each table-clear route is for
ClearRouteTable ==
    [r \in {"/api/anomalies/clear", "/api/transactions/clear", "/api/transaction-items/clear",
            "/api/submissions/clear", "/api/integrations/clear"} |->
        CASE r = "/api/anomalies/clear" -> "anomaly_flags"
          [] r = "/api/transactions/clear" -> "transactions"
          [] r = "/api/transaction-items/clear" -> "transaction_items"
          [] r = "/api/submissions/clear" -> "submissions"
          [] r = "/api/integrations/clear" -> "integrations"]

C18_ClearStep ==
    (req = NoRequest /\ req'.route \in DOMAIN ClearRouteTable)
        => /\ \A t \in Tables \ {ClearRouteTable[req'.route]} : db'[t] = db[t]
           /\ \A i \in DOMAIN calls' :
                  /\ calls'[i].kind = "sql"
                  /\ StatementTable(calls'[i].target) = ClearRouteTable[req'.route]
           /\ req'.route = "/api/integrations/clear"
                  => {r \in db["integrations"] : r.type # "shopify"} \subseteq db'["integrations"]

\* C18: a table-clear route removes rows from its own table only and leaves every
\* other table as it was (anomalies/clear: anomaly_flags, transactions/clear:
\* transactions, transaction-items/clear: transaction_items, submissions/clear:
\* submissions), and integrations/clear removes only the integrations rows of type
\* 'shopify', the rows of every other type staying.
C18_OwnTableOnly == [][C18_ClearStep]_vars

C18_Witness ==
    /\ req.route = "/api/integrations/clear"
    /\ resp.status = 200
    /\ resp.body.rowCount = MaxRows
    /\ db["integrations"] = {[id |-> MaxRows + 1, type |-> "woocommerce"]}
    /\ db["transactions"] = FullTable("transactions")
    /\ db["anomaly_flags"] = {}

(***************************************************************************)
(* The page size of the dashboard (checked under SpecDashboard)            *)
(***************************************************************************)
\* the customers request of a call the page-size select started is sent with the
\* size selected
C20_RequestLimit ==
    \A i \in DOMAIN runs :
        (runs[i].newPageSize # 0 /\ runs[i].stage = "customers")
            => runs[i].limit = runs[i].newPageSize

\* the pagination recorded from the response of such a request has that size
C20_RecordedStep ==
    \A i \in DOMAIN runs :
        (/\ runs[i].newPageSize # 0
         /\ runs[i].stage = "customers"
         /\ runs' = Without(runs, i)
         /\ dash'.pagination # dash.pagination)
            => dash'.pagination.limit = runs[i].newPageSize

\* C20: when the page-size select of the dashboard is changed to N, the customers
\* request that change issues is sent with limit = N, and the pagination recorded
\* from its response has limit = N.
C20_PageSizeApplied == []C20_RequestLimit /\ [][C20_RecordedStep]_vars

(***************************************************************************)
(* The processor dialog of the anomalies page (under SpecAnomaliesPage)    *)
(***************************************************************************)
C23_ShownIffAnomaly == page.showAnomalyProcessor <=> (page.processingAnomaly # NoAnomaly)

\* this step opens the processor dialog
DialogOpened ==
    /\ page'.processingAnomaly # NoAnomaly
    /\ page'.processingAnomaly # page.processingAnomaly

C23_OpenedStep ==
    DialogOpened =>
        \E i \in DOMAIN page.anomalies :
            /\ page.anomalies[i] = page'.processingAnomaly
            /\ ~page.anomalies[i].resolved

\* C23: after any sequence of handleProcessAnomaly, handleCloseProcessor and
\* handleAnomalyResolved, showAnomalyProcessor is true exactly when processingAnomaly
\* is not null, and the processor dialog is opened only for an anomaly that the list
\* shows as unresolved.
C23_DialogState == []C23_ShownIffAnomaly /\ [][C23_OpenedStep]_vars

C23_Witness ==
    /\ page.showAnomalyProcessor
    /\ page.processingAnomaly.id = "anomaly-2"
    /\ delivered = SuccessCalls("anomaly-1")
    /\ \E i \in DOMAIN page.anomalies : page.anomalies[i].resolved

(***************************************************************************)
(* The customers table of the dashboard (checked under SpecCustomerList)   *)
(***************************************************************************)
\* the search term is contained, whatever the case, in one of the four fields
MatchesSearch(c) ==
    \E field \in {c.firstName, c.lastName, c.email, c.organizationName} :
        includes(toLowerCase(field), toLowerCase(filters.searchTerm))

\* the two usage checkboxes; both checked is as none checked
MatchesUsage(c) ==
    CASE filters.showOnlyApiUsers /\ filters.showOnlyNonApiUsers -> TRUE
      [] filters.showOnlyApiUsers -> c.hasApiUsage
      [] filters.showOnlyNonApiUsers -> ~c.hasApiUsage
      [] OTHER -> TRUE

MatchesPlan(c) == filters.planFilter = "all" \/ c.planId = filters.planFilter

MatchesStatus(c) ==
    CASE filters.apiStatusFilter = "active" -> c.hasApiUsage
      [] filters.apiStatusFilter = "noUsage" -> ~c.hasApiUsage /\ c.apiKeyCount > 0
      [] filters.apiStatusFilter = "noKeys" -> c.apiKeyCount = 0
      [] OTHER -> TRUE

MatchesAll(c) == MatchesSearch(c) /\ MatchesUsage(c) /\ MatchesPlan(c) /\ MatchesStatus(c)

\* row a may stand before row b under the sort selected
InOrder(a, b) ==
    LET before == IF filters.sortDirection = "asc" THEN a ELSE b
        after == IF filters.sortDirection = "asc" THEN b ELSE a
    IN  CASE filters.sortField = "dateCreated" ->
                 GetTime(before.dateCreated) <= GetTime(after.dateCreated)
          [] filters.sortField = "lastActivity" ->
                 (IF before.lastActivity.present THEN GetTime(before.lastActivity.date) ELSE 0)
                     <= (IF after.lastActivity.present THEN GetTime(after.lastActivity.date) ELSE 0)
          [] filters.sortField = "organizationName" ->
                 ~StringLess(toLowerCase(after.organizationName),
                             toLowerCase(before.organizationName))

\* C21: getFilteredCustomers returns exactly the customers of its input that satisfy
\* every active filter (the search term contained, case-insensitively, in first name,
\* last name, email or organization name; the API-usage checkboxes, both checked
\* meaning no usage filter; the plan filter; the API status filter), ordered by the
\* selected sort field in the selected direction.
C21_FilteredAndOrdered ==
    /\ {tableRows[i] : i \in DOMAIN tableRows} = {customers[i] : i \in DOMAIN customers} \cap {c \in CustomerPool : MatchesAll(c)}
    /\ \A i, j \in DOMAIN tableRows : i # j => tableRows[i] # tableRows[j]
    /\ \A i, j \in DOMAIN tableRows : i < j => InOrder(tableRows[i], tableRows[j])

C21_Witness ==
    /\ Len(customers) = 3
    /\ filters.showOnlyApiUsers
    /\ filters.showOnlyNonApiUsers
    /\ filters.searchTerm = <<65, 76>>
    /\ filters.sortField = "organizationName"
    /\ filters.sortDirection = "asc"
    /\ Len(tableRows) = 2
    /\ tableRows[1].userId = "u2"
    /\ tableRows[2].userId = "u1"

(***************************************************************************)
(* The password form of app/page.tsx (checked under SpecLogin)             *)
(***************************************************************************)
\* this step is a submission of the login form
Submitted == login'.submits = login.submits + 1

RightPassword == login.password = ExpectedPassword(envAdminPassword)

\* every API call was issued with isAuthenticated true
C22_IssuedAuthenticated == \A i \in DOMAIN adminCalls : adminCalls[i].isAuthenticated

C22_GateStep ==
    /\ (login'.isAuthenticated /\ ~login.isAuthenticated) => (Submitted /\ RightPassword)
    /\ (Submitted /\ ~RightPassword)
           => /\ ~login'.isAuthenticated
              /\ login'.error = "Invalid password"
              /\ adminCalls' = adminCalls
    /\ (login.isAuthenticated /\ ~login'.isAuthenticated) => LoginFormShown(login')

\* C22: in the password-gated dashboard isAuthenticated becomes true only by submitting
\* a password equal to the expected admin password; a wrong password leaves it false,
\* sets the error 'Invalid password' and sends no request; no dashboard, customer or
\* usage request is issued while isAuthenticated is false; Sign out returns to the
\* login form.
C22_PasswordGate == []C22_IssuedAuthenticated /\ [][C22_GateStep]_vars

\* the gate itself, the requests left aside
C22_GateOnly == [][C22_GateStep]_vars

\* the requests issued while signed out are those that complete a customer sync
C22_OnlyAfterSync ==
    \A i \in DOMAIN adminCalls :
        ~adminCalls[i].isAuthenticated
            => adminCalls[i].kind = "fetchDashboardData" /\ adminCalls[i].finishesSync

===========================================================================
